---------------------------- MODULE Spec2Model ----------------------------
(***************************************************************************)
(* Model of the Tacview mission-log engine of loggers-sim-logbook:         *)
(* backend/xml_parser.py (pipeline, event interpreter, flight-time         *)
(* estimator, finalizer, classifier, dedup ledger), backend/validation.py  *)
(* (name validators) and nickname_matcher.py (identity resolver).          *)
(*                                                                         *)
(* Text that the code inspects character by character (pilot labels,       *)
(* aircraft names, callsigns) is a sequence of one-character strings.      *)
(* Text that is only compared or concatenated (mission name, date, action, *)
(* type and coalition tags) is a TLA+ string.  Numeric text is a record    *)
(* saying whether float() accepts it.  Latitudes and longitudes are        *)
(* integers in units of 1e-4 degree, times are whole seconds.              *)
(* The JSON files behind the ledger and the configuration are read and     *)
(* written without I/O failure.                                            *)
(***************************************************************************)
EXTENDS Integers, Sequences, FiniteSets, TLC

\* ------------------------------------------------------------------ text

UpperChars == <<"A","B","C","D","E","F","G","H","I","J","K","L","M","N","O","P","Q","R","S","T","U","V","W","X","Y","Z">>
LowerChars == <<"a","b","c","d","e","f","g","h","i","j","k","l","m","n","o","p","q","r","s","t","u","v","w","x","y","z">>
DigitChars == <<"0","1","2","3","4","5","6","7","8","9">>

Range(s) == {s[i] : i \in DOMAIN s}

AsciiLetters == Range(UpperChars) \cup Range(LowerChars)
Digits == Range(DigitChars)
Whitespace == {" ", "\t", "\n", "\r"}

\* str.lower() on one character
lower_char(c) ==
    IF c \in Range(UpperChars)
    THEN LowerChars[CHOOSE i \in DOMAIN UpperChars : UpperChars[i] = c]
    ELSE c

\* str.lower()
lower(s) == [i \in DOMAIN s |-> lower_char(s[i])]

\* a in b  (Python substring test)
contains(b, a) ==
    \E i \in 0..(Len(b) - Len(a)) : SubSeq(b, i + 1, i + Len(a)) = a

\* str.strip()
RECURSIVE lstrip(_)
lstrip(s) == IF s # <<>> /\ Head(s) \in Whitespace THEN lstrip(Tail(s)) ELSE s

RECURSIVE rstrip(_)
rstrip(s) ==
    IF s # <<>> /\ s[Len(s)] \in Whitespace
    THEN rstrip(SubSeq(s, 1, Len(s) - 1))
    ELSE s

strip(s) == rstrip(lstrip(s))

\* str.split(sep): the parts of s between the occurrences of sep
RECURSIVE split_from(_, _, _)
split_from(s, sep, cur) ==
    IF s = <<>> THEN <<cur>>
    ELSE IF Len(s) >= Len(sep) /\ SubSeq(s, 1, Len(sep)) = sep
         THEN <<cur>> \o split_from(SubSeq(s, Len(sep) + 1, Len(s)), sep, <<>>)
         ELSE split_from(Tail(s), sep, Append(cur, Head(s)))

split(s, sep) == split_from(s, sep, <<>>)

s_unknown == <<"u","n","k","n","o","w","n">>
s_Unknown == <<"U","n","k","n","o","w","n">>

\* ------------------------------------------------------------ validation

MAX_PILOT_NAME_LENGTH == 100
MAX_AIRCRAFT_NAME_LENGTH == 100

\* PILOT_NAME_PATTERN  ^[a-zA-Z0-9\s\-_|\.]+$
PilotNameChars == AsciiLetters \cup Digits \cup Whitespace \cup {"-", "_", "|", "."}
\* AIRCRAFT_PATTERN  ^[a-zA-Z0-9\s\-_\.\/]+$
AircraftChars == AsciiLetters \cup Digits \cup Whitespace \cup {"-", "_", ".", "/"}

validate_pilot_name(name) ==
    /\ name # <<>>
    /\ Len(name) <= MAX_PILOT_NAME_LENGTH
    /\ \A i \in DOMAIN name : name[i] \in PilotNameChars

validate_aircraft_name(name) ==
    /\ name # <<>>
    /\ Len(name) <= MAX_AIRCRAFT_NAME_LENGTH
    /\ \A i \in DOMAIN name : name[i] \in AircraftChars

\* the control characters sanitize_string removes, as far as a label can hold them
ControlChars == {"\n", "\r"}

IsKept(c) == c \notin ControlChars

sanitize_string(value, max_length) ==
    LET sanitized == SelectSeq(value, IsKept)
    IN  strip(IF Len(sanitized) > max_length
              THEN SubSeq(sanitized, 1, max_length)
              ELSE sanitized)

\* -------------------------------------------------------- identity resolver

\* DEFAULT_FRAGMENTS, in insertion order
DEFAULT_FRAGMENTS ==
    << [nickname |-> <<"d","r","u","n","k","b","o","n","s","a","i">>,
        fragments |-> << <<"d","r","u","n","k">>, <<"b","o","n","s","a","i">> >>],
       [nickname |-> <<"s","i","x">>,
        fragments |-> << <<"h","h","c">>, <<"2","2","9">>, <<"s","i","x">> >>],
       [nickname |-> <<"m","a","c","h","i","n","e","g","u","n","8","1","7">>,
        fragments |-> << <<"m","a","c","h","i","n","e","g","u","n">>, <<"8","1","7">>,
                         <<"g","u","n","n","e","r">> >>],
       [nickname |-> <<"b","o","n","e","s">>,
        fragments |-> << <<"b","o","n","e","s">>, <<"s","p","r","i","n","g","f","i","e","l","d">> >>],
       [nickname |-> <<"f","a","t","a","l">>,
        fragments |-> << <<"f","a","t","a","l">>, <<"1","0","1","s","t">> >>] >>

\* \w of the re module
IsWordChar(c) == c \in AsciiLetters \cup Digits \cup {"_", "ü"}

normalize_name(name) == lower(SelectSeq(name, IsWordChar))

\* resolve_fuzzy_nickname returning the last full match of the table instead of
\* the first
resolve_fuzzy_nickname_last_match(raw_name, nickname_fragments) ==
    LET norm == normalize_name(raw_name)
        matches == {i \in DOMAIN nickname_fragments :
                      \A j \in DOMAIN nickname_fragments[i].fragments :
                          contains(norm, nickname_fragments[i].fragments[j])}
    IN  IF matches # {}
        THEN nickname_fragments[CHOOSE i \in matches : \A k \in matches : i >= k].nickname
        ELSE normalize_name(raw_name)

resolve_fuzzy_nickname(raw_name, nickname_fragments) ==
    LET norm == normalize_name(raw_name)
        matches == {i \in DOMAIN nickname_fragments :
                      \A j \in DOMAIN nickname_fragments[i].fragments :
                          contains(norm, nickname_fragments[i].fragments[j])}
    IN  IF matches # {}
        THEN nickname_fragments[CHOOSE i \in matches : \A k \in matches : i <= k].nickname
        ELSE normalize_name(raw_name)

\* the pilot labels of the events below, and their nicknames, evaluated once
L_Bones == <<"B","o","n","e","s">>
L_SpringfieldBones == <<"S","p","r","i","n","g","f","i","e","l","d"," ","B","o","n","e","s">>
L_Fatal == <<"F","a","t","a","l"," ","1","0","1","s","t">>
L_StaticArmor == <<"S","t","a","t","i","c"," ","A","r","m","o","r">>
L_StaticArmorRed == <<"S","t","a","t","i","c"," ","A","r","m","o","r"," ","R","E","D","-","B","-","7","-","1">>
L_Gunner == <<"G","u","n","n","e","r"," ","1"," ","|"," ","M","a","c","h","i","n","e","g","u","n","8","1","7">>
L_Machinegun817 == <<"M","a","c","h","i","n","e","g","u","n","8","1","7">>
L_817 == <<"8","1","7">>
L_DrunkBonsai == <<"D","r","u","n","k"," ","B","o","n","s","a","i">>
L_HHCSix == <<"H","H","C"," ","2","2","9"," ","S","i","x">>
L_MachinegunGunner == <<"M","a","c","h","i","n","e","g","u","n"," ","8","1","7"," ","G","u","n","n","e","r">>
L_UnknownPilot == <<"U","n","k","n","o","w","n"," ","P","i","l","o","t">>
L_SixBones == <<"S","p","r","i","n","g","f","i","e","l","d"," ","B","o","n","e","s"," ","H","H","C"," ","2","2","9"," ","S","i","x">>
PilotLabels ==
    {L_Bones, L_SpringfieldBones, L_Fatal, L_StaticArmor, L_StaticArmorRed, L_Gunner,
     L_Machinegun817, L_817, L_DrunkBonsai, L_HHCSix, L_MachinegunGunner,
     L_UnknownPilot, L_SixBones}
Nicknames == [l \in PilotLabels |-> resolve_fuzzy_nickname(l, DEFAULT_FRAGMENTS)]

\* resolve_fuzzy_nickname(name) with the default fragments
nickname_of(raw_name) ==
    IF raw_name \in PilotLabels
    THEN Nicknames[raw_name]
    ELSE resolve_fuzzy_nickname(raw_name, DEFAULT_FRAGMENTS)

\* ---------------------------------------------------------------- classifier

player_aircraft ==
    <<
      <<"D","C","S",":"," ","F","4","U","-","1","D"," ","C","o","r","s","a","i","r">>,
      <<"D","C","S",":"," ","F","-","5","E"," ","R","e","m","a","s","t","e","r","e","d">>,
      <<"D","C","S",":"," ","F","l","a","m","i","n","g"," ","C","l","i","f","f","s"," ","2","0","2","4">>,
      <<"D","C","S",":"," ","F","-","4","E"," ","P","h","a","n","t","o","m"," ","I","I">>,
      <<"D","C","S",":"," ","F","-","1","5","E">>,
      <<"D","C","S",":"," ","M","B","-","3","3","9">>,
      <<"D","C","S",":"," ","M","i","r","a","g","e"," ","F","1">>,
      <<"D","C","S",":"," ","M","o","s","q","u","i","t","o"," ","F","B"," ","V","I">>,
      <<"D","C","S",":"," ","A","-","1","0","C"," ","I","I"," ","T","a","n","k"," ","K","i","l","l","e","r">>,
      <<"D","C","S",":"," ","P","-","4","7","D"," ","T","h","u","n","d","e","r","b","o","l","t">>,
      <<"D","C","S",":"," ","J","F","-","1","7"," ","T","h","u","n","d","e","r">>,
      <<"D","C","S",":"," ","F","-","1","6","C"," ","V","i","p","e","r">>,
      <<"D","C","S",":"," ","F","w"," ","1","9","0"," ","A","-","8">>,
      <<"D","C","S",":"," ","I","-","1","6">>,
      <<"D","C","S",":"," ","M","i","G","-","1","9","P"," ","F","a","r","m","e","r">>,
      <<"D","C","S",":"," ","C","h","r","i","s","t","e","n"," ","E","a","g","l","e"," ","I","I">>,
      <<"D","C","S",":"," ","F","-","1","4"," ","T","o","m","c","a","t">>,
      <<"D","C","S",":"," ","Y","a","k","-","5","2">>,
      <<"D","C","S",":"," ","F","/","A","-","1","8","C">>,
      <<"D","C","S",":"," ","A","V","-","8","B"," ","N","i","g","h","t"," ","A","t","t","a","c","k"," ","V","/","S","T","O","L">>,
      <<"D","C","S",":"," ","A","J","S","-","3","7"," ","V","i","g","g","e","n">>,
      <<"D","C","S",":"," ","S","p","i","t","f","i","r","e"," ","L","F"," ","M","k","."," ","I","X">>,
      <<"D","C","S",":"," ","F","-","5","E">>,
      <<"D","C","S",":"," ","M","-","2","0","0","0","C">>,
      <<"D","C","S",":"," ","L","-","3","9"," ","A","l","b","a","t","r","o","s">>,
      <<"D","C","S",":"," ","C","-","1","0","1"," ","A","v","i","o","j","e","t">>,
      <<"D","C","S",":"," ","B","f"," ","1","0","9"," ","K","-","4"," ","K","u","r","f","ü","r","s","t">>,
      <<"D","C","S",":"," ","M","i","G","-","2","1","b","i","s">>,
      <<"D","C","S",":"," ","F","w"," ","1","9","0"," ","D","-","9"," ","D","o","r","a">>,
      <<"D","C","S",":"," ","P","-","5","1","D"," ","M","u","s","t","a","n","g">>,
      <<"D","C","S",":"," ","A","-","1","0","C"," ","W","a","r","t","h","o","g">>,
      <<"A","-","4"," ","S","k","y","h","a","w","k">>,
      <<"A","-","4","E">>,
      <<"D","C","S",":"," ","U","H","-","1","H"," ","H","u","e","y">>,
      <<"D","C","S",":"," ","M","i","-","8","M","T"," ","H","i","p">>,
      <<"D","C","S",":"," ","K","a","-","5","0"," ","B","l","a","c","k"," ","S","h","a","r","k">>,
      <<"D","C","S",":"," ","S","A","3","4","2"," ","G","a","z","e","l","l","e">>,
      <<"D","C","S",":"," ","M","i","-","2","4","P"," ","H","i","n","d">>,
      <<"D","C","S",":"," ","A","H","-","6","4","D"," ","A","p","a","c","h","e">>,
      <<"D","C","S",":"," ","O","H","-","5","8","D"," ","K","i","o","w","a"," ","W","a","r","r","i","o","r">>,
      <<"D","C","S",":"," ","A","H","-","6","4","E"," ","A","p","a","c","h","e">>,
      <<"D","C","S",":"," ","M","i","-","2","8","N"," ","H","a","v","o","c">>,
      <<"D","C","S",":"," ","K","a","-","5","0","-","3"," ","B","l","a","c","k"," ","S","h","a","r","k">>,
      <<"D","C","S",":"," ","C","H","-","4","7","F"," ","C","h","i","n","o","o","k">>,
      <<"D","C","S",":"," ","U","H","-","6","0","L"," ","B","l","a","c","k"," ","H","a","w","k">>,
      <<"D","C","S",":"," ","M","i","-","1","7"," ","H","i","p">>,
      <<"D","C","S",":"," ","A","H","-","1","W"," ","S","u","p","e","r"," ","C","o","b","r","a">>,
      <<"D","C","S",":"," ","A","H","-","1","Z"," ","V","i","p","e","r">>,
      <<"D","C","S",":"," ","U","H","-","1","Y"," ","V","e","n","o","m">>,
      <<"D","C","S",":"," ","M","i","-","2","6"," ","H","a","l","o">>,
      <<"D","C","S",":"," ","K","a","-","2","7"," ","H","e","l","i","x">>,
      <<"D","C","S",":"," ","K","a","-","2","9"," ","H","e","l","i","x">>,
      <<"D","C","S",":"," ","M","i","-","3","5","M"," ","H","i","n","d">>,
      <<"D","C","S",":"," ","M","i","-","2","8"," ","H","a","v","o","c">>,
      <<"D","C","S",":"," ","A","H","-","6","J"," ","L","i","t","t","l","e"," ","B","i","r","d">>,
      <<"D","C","S",":"," ","O","H","-","6","A"," ","C","a","y","u","s","e">>,
      <<"D","C","S",":"," ","U","H","-","1","N"," ","T","w","i","n"," ","H","u","e","y">>,
      <<"D","C","S",":"," ","C","H","-","5","3","E"," ","S","u","p","e","r"," ","S","t","a","l","l","i","o","n">>,
      <<"D","C","S",":"," ","C","H","-","4","6"," ","S","e","a"," ","K","n","i","g","h","t">>,
      <<"D","C","S",":"," ","V","-","2","2"," ","O","s","p","r","e","y">>,
      <<"D","C","S",":"," ","M","i","-","8">>,
      <<"D","C","S",":"," ","K","a","-","5","0">>,
      <<"D","C","S",":"," ","A","H","-","6","4">>,
      <<"D","C","S",":"," ","U","H","-","1">>,
      <<"D","C","S",":"," ","M","i","-","2","4">>,
      <<"D","C","S",":"," ","S","A","3","4","2">>,
      <<"D","C","S",":"," ","O","H","-","5","8","D">>,
      <<"D","C","S",":"," ","C","H","-","4","7">>,
      <<"D","C","S",":"," ","U","H","-","6","0">>,
      <<"D","C","S",":"," ","M","i","-","1","7">>,
      <<"D","C","S",":"," ","A","H","-","1">>,
      <<"D","C","S",":"," ","M","i","-","2","6">>,
      <<"D","C","S",":"," ","K","a","-","2","7">>,
      <<"D","C","S",":"," ","M","i","-","3","5">>,
      <<"D","C","S",":"," ","A","H","-","6">>,
      <<"D","C","S",":"," ","O","H","-","6">>,
      <<"D","C","S",":"," ","C","H","-","5","3">>,
      <<"D","C","S",":"," ","C","H","-","4","6">>,
      <<"D","C","S",":"," ","V","-","2","2">>,
      <<"M","i","G","-","1","5","b","i","s">>,
      <<"F","-","5","E"," ","F","l","a","m","i","n","g"," ","C","l","i","f","f","s">>,
      <<"F","-","8","6","F"," ","F","l","a","m","i","n","g"," ","C","l","i","f","f","s">>,
      <<"M","i","G","-","2","9"," ","F","l","a","m","i","n","g"," ","C","l","i","f","f","s">>,
      <<"S","u","-","3","3"," ","F","l","a","m","i","n","g"," ","C","l","i","f","f","s">>,
      <<"S","u","-","2","7"," ","F","l","a","m","i","n","g"," ","C","l","i","f","f","s">>,
      <<"F","-","1","5","C"," ","F","l","a","m","i","n","g"," ","C","l","i","f","f","s">>,
      <<"S","u","-","2","5"," ","F","l","a","m","i","n","g"," ","C","l","i","f","f","s">>,
      <<"A","-","1","0","A"," ","F","l","a","m","i","n","g"," ","C","l","i","f","f","s">>,
      <<"F","-","8","6","F"," ","S","a","b","r","e">>,
      <<"F","-","4","E"," ","P","h","a","n","t","o","m">>,
      <<"F","-","1","5","E"," ","S","t","r","i","k","e"," ","E","a","g","l","e">>,
      <<"F","-","1","6","C">>,
      <<"F","/","A","-","1","8","C"," ","H","o","r","n","e","t">>,
      <<"A","V","-","8","B">>,
      <<"A","-","1","0","C">>,
      <<"P","-","5","1","D">>,
      <<"M","i","G","-","2","1">>,
      <<"M","i","G","-","2","9">>,
      <<"S","u","-","2","7">>,
      <<"S","u","-","3","3">>,
      <<"F","-","1","5","C">>,
      <<"S","u","-","2","5">>,
      <<"A","-","1","0","A">>,
      <<"F","-","5","E">>,
      <<"F","-","8","6","F">>,
      <<"M","i","G","-","1","5">>,
      <<"F","w"," ","1","9","0">>,
      <<"B","f"," ","1","0","9">>,
      <<"S","p","i","t","f","i","r","e">>,
      <<"M","o","s","q","u","i","t","o">>,
      <<"C","o","r","s","a","i","r">>,
      <<"T","h","u","n","d","e","r","b","o","l","t">>,
      <<"M","u","s","t","a","n","g">>,
      <<"V","i","g","g","e","n">>,
      <<"M","i","r","a","g","e"," ","F","1">>,
      <<"M","-","2","0","0","0","C">>,
      <<"L","-","3","9">>,
      <<"C","-","1","0","1">>,
      <<"Y","a","k","-","5","2">>,
      <<"C","h","r","i","s","t","e","n"," ","E","a","g","l","e">>,
      <<"J","F","-","1","7">>,
      <<"I","-","1","6">>,
      <<"M","i","G","-","1","9">>,
      <<"F","w"," ","1","9","0"," ","A","-","8">>,
      <<"F","w"," ","1","9","0"," ","D","-","9">>,
      <<"B","f"," ","1","0","9"," ","K","-","4">>,
      <<"M","B","-","3","3","9">>,
      <<"A","J","S","-","3","7">>,
      <<"A","V","-","8","B"," ","N","i","g","h","t"," ","A","t","t","a","c","k">>,
      <<"A","-","4"," ","S","k","y","h","a","w","k">>,
      <<"A","-","4","E"," ","S","k","y","h","a","w","k">>,
      <<"H","u","e","y">>,
      <<"H","i","p">>,
      <<"B","l","a","c","k"," ","S","h","a","r","k">>,
      <<"G","a","z","e","l","l","e">>,
      <<"H","i","n","d">>,
      <<"A","p","a","c","h","e">>,
      <<"K","i","o","w","a">>,
      <<"H","a","v","o","c">>,
      <<"C","h","i","n","o","o","k">>,
      <<"B","l","a","c","k"," ","H","a","w","k">>,
      <<"S","u","p","e","r"," ","C","o","b","r","a">>,
      <<"V","i","p","e","r">>,
      <<"V","e","n","o","m">>,
      <<"H","a","l","o">>,
      <<"H","e","l","i","x">>,
      <<"L","i","t","t","l","e"," ","B","i","r","d">>,
      <<"C","a","y","u","s","e">>,
      <<"T","w","i","n"," ","H","u","e","y">>,
      <<"S","u","p","e","r"," ","S","t","a","l","l","i","o","n">>,
      <<"S","e","a"," ","K","n","i","g","h","t">>,
      <<"O","s","p","r","e","y">>
    >>

\* ------------------------------------------------------------------ state

VARIABLES
    player_profiles,      \* config/profiles.json "players": <<[callsign, aliases]>>
    squadron_callsigns,   \* config/squadron_callsigns.json "callsigns"
    processed_missions,   \* config/processed_missions.json, in insertion order
    clock,                \* datetime.now(), read by mark_mission_as_processed
    pc,                   \* "idle": no call running; "events": inside the event loop
    mission,              \* metadata of the document being parsed
    events_done,          \* events of the document handed to process_event so far
    event,                \* the event of the last iteration of the loop
    pilot_missions,       \* identity -> accumulator of the running call
    pilot_positions,      \* identity -> position samples of the running call
    returned,             \* what parse_tacview_xml returned in the last call
    result,               \* outcome of the last parse_xml call
    last_call,            \* the document of the last call that ended
    history,              \* mission key -> passes that marked it, marks since
    retry,                \* the running or last call of a retry_operation wrapper
    file_call,            \* the safe_file_* call inside a safe_json_* call
    upload,               \* upload_xml: parse results answered, statistics delivered
    requests              \* overlapping upload requests: request -> its position

vars == <<player_profiles, squadron_callsigns, processed_missions, clock, pc,
          mission, events_done, event, pilot_missions, pilot_positions, returned,
          result, last_call, history, retry, file_call, upload, requests>>

\* ---------------------------------------------------------------- classifier

is_known_player(pilot_name) ==
    /\ pilot_name # <<>>
    /\ LET pilot_lower == lower(pilot_name)
       IN  \E i \in DOMAIN player_profiles :
              \/ lower(player_profiles[i].callsign) = pilot_lower
              \/ \E j \in DOMAIN player_profiles[i].aliases :
                    lower(player_profiles[i].aliases[j]) = pilot_lower

\* lines 776-783: substring overlap, in either direction, with the allow-list
aircraft_allowed(aircraft_name) ==
    LET aircraft_lower == lower(aircraft_name)
    IN  \E i \in DOMAIN player_aircraft :
           \/ contains(aircraft_lower, lower(player_aircraft[i]))
           \/ contains(lower(player_aircraft[i]), aircraft_lower)

\* callsign_matches without the test that the label is part of the callsign
callsign_matches_one_way(pilot_name, callsign) ==
    LET pilot_lower == lower(pilot_name)
        callsign_lower == lower(callsign)
        in_parts(sep) ==
            /\ contains(pilot_name, sep)
            /\ LET parts == split(pilot_name, sep)
               IN  /\ Len(parts) = 2
                   /\ \/ contains(lower(strip(parts[1])), callsign_lower)
                      \/ contains(lower(strip(parts[2])), callsign_lower)
    IN  \/ contains(pilot_lower, callsign_lower)
        \/ in_parts(<<"|">>)
        \/ in_parts(<<" ", "-", " ">>)

\* lines 797-830: the roster test of one callsign
callsign_matches(pilot_name, callsign) ==
    LET pilot_lower == lower(pilot_name)
        callsign_lower == lower(callsign)
        in_parts(sep) ==
            /\ contains(pilot_name, sep)
            /\ LET parts == split(pilot_name, sep)
               IN  /\ Len(parts) = 2
                   /\ \/ contains(lower(strip(parts[1])), callsign_lower)
                      \/ contains(lower(strip(parts[2])), callsign_lower)
    IN  \/ contains(pilot_lower, callsign_lower)
        \/ contains(callsign_lower, pilot_lower)
        \/ in_parts(<<"|">>)
        \/ in_parts(<<" ", "-", " ">>)

\* the aircraft names of the events below, and their verdicts, evaluated once
A_F16C == <<"F","-","1","6","C">>
A_Tank == <<"T","a","n","k">>
A_T72 == <<"T","-","7","2">>
A_Hind == <<"M","i","-","2","4","P"," ","H","i","n","d","-","F">>
AircraftNames == {A_F16C, A_Tank, A_T72, A_Hind, s_Unknown}
AllowedNames == {a \in AircraftNames : aircraft_allowed(a)}

aircraft_in_whitelist(aircraft_name) ==
    IF aircraft_name \in AircraftNames
    THEN aircraft_name \in AllowedNames
    ELSE aircraft_allowed(aircraft_name)

\* is_player_client testing the aircraft before the known-player list
is_player_client_aircraft_first(pilot_name, aircraft_name, group) ==
    IF pilot_name = <<>> \/ lower(pilot_name) = s_unknown THEN FALSE
    ELSE IF ~aircraft_in_whitelist(aircraft_name) THEN FALSE
    ELSE IF is_known_player(pilot_name) THEN TRUE
    ELSE IF squadron_callsigns = <<>> THEN TRUE
    ELSE \E i \in DOMAIN squadron_callsigns :
            callsign_matches(pilot_name, squadron_callsigns[i])

is_player_client(pilot_name, aircraft_name, group) ==
    IF pilot_name = <<>> \/ lower(pilot_name) = s_unknown THEN FALSE
    ELSE IF is_known_player(pilot_name) THEN TRUE
    ELSE IF ~aircraft_in_whitelist(aircraft_name) THEN FALSE
    ELSE IF squadron_callsigns = <<>> THEN TRUE
    ELSE \E i \in DOMAIN squadron_callsigns :
            callsign_matches(pilot_name, squadron_callsigns[i])

\* ------------------------------------------------------------ accumulators

\* the mapping m with key k set to v (k added when it is not a key yet)
Put(m, k, v) == [x \in (DOMAIN m) \cup {k} |-> IF x = k THEN v ELSE m[x]]

\* kd_ratio values: "N/A", the infinity sentinel, or a ratio with two decimals
KD_NA == [kind |-> "N/A", hundredths |-> 0]
KD_INF == [kind |-> "inf", hundredths |-> 0]

\* the default factory of pilot_missions (the fields the engine never changes,
\* date, mission, platform, res, mia, ctd, sorties, profile_image, are left out)
new_pilot_mission(mission_duration) ==
    [flight_minutes |-> mission_duration \div 60,
     aa_kills |-> 0, ag_kills |-> 0, frat_kills |-> 0,
     rtb |-> 0, kia |-> 0,
     aircraft |-> s_Unknown,
     ejections |-> 0, deaths |-> 0,
     total_kills |-> 0, kd_ratio |-> KD_NA,
     nicknames |-> <<>>]

\* pilot_missions[key] of the defaultdict: reading a missing key creates it
touch(missions, key) ==
    IF key \in DOMAIN missions
    THEN missions
    ELSE Put(missions, key, new_pilot_mission(mission.duration))

ground_types ==
    {"Infantry", "SAM/AAA", "Vehicle", "Tank", "Artillery",
     "Ship", "Boat", "Structure", "Ground"}

\* ------------------------------------------------------- event interpreter

\* An XML element that is absent
NoObject == [present |-> FALSE, Pilot |-> <<>>, Name |-> <<>>, Group |-> <<>>,
             Type |-> "", Coalition |-> ""]
NoLocation == [present |-> FALSE, Latitude |-> [kind |-> "none", val |-> 0],
               Longitude |-> [kind |-> "none", val |-> 0]]
\* no event: the loop has not started, or has ended
NoEvent == [Action |-> "", PrimaryObject |-> NoObject, SecondaryObject |-> NoObject,
            Location |-> NoLocation, Time |-> [kind |-> "none", val |-> 0]]

\* kill_category without the test that the coalition tag is not empty
kill_category_empty_tags_equal(destroyed_coalition, attacker_coalition, destroyed_type) ==
    IF destroyed_coalition = attacker_coalition
    THEN "frat_kills"
    ELSE IF destroyed_type \in ground_types THEN "ag_kills"
    ELSE "aa_kills"

\* lines 350-366: the kill counter a destroyed-with-secondary event increments
kill_category(destroyed_coalition, attacker_coalition, destroyed_type) ==
    IF destroyed_coalition = attacker_coalition /\ destroyed_coalition # ""
    THEN "frat_kills"
    ELSE IF destroyed_type \in ground_types THEN "ag_kills"
    ELSE "aa_kills"

increment(missions, key, field) ==
    LET m == touch(missions, key)
    IN  [m EXCEPT ![key] = [@ EXCEPT ![field] = @ + 1]]

\* lines 349-381: the counters of an accepted primary's event
\* process_action counting a death of the primary also when a rejected
\* secondary destroyed it
process_action_death_on_every_destruction(ev, missions, pilot, nickname, aircraft, group) ==
    LET primary == ev.PrimaryObject
        secondary == ev.SecondaryObject
    IN  IF ev.Action = "HasBeenDestroyed"
        THEN IF secondary.present
             THEN LET attacker == strip(secondary.Pilot)
                  IN  IF /\ attacker # <<>>
                         /\ lower(attacker) # s_unknown
                         /\ is_player_client(attacker, aircraft, group)
                      THEN increment(missions,
                                     nickname_of(attacker),
                                     kill_category(primary.Coalition,
                                                   secondary.Coalition, primary.Type))
                      ELSE increment(increment(missions, nickname_of(pilot), "kia"),
                                     nickname_of(pilot), "deaths")
             ELSE LET victim_nick == nickname_of(pilot)
                  IN  increment(increment(missions, victim_nick, "kia"),
                                victim_nick, "deaths")
        ELSE IF ev.Action = "HasLanded" THEN increment(missions, nickname, "rtb")
        ELSE IF ev.Action = "HasEjected" THEN increment(missions, nickname, "ejections")
        ELSE missions

process_action(ev, missions, pilot, nickname, aircraft, group) ==
    LET primary == ev.PrimaryObject
        secondary == ev.SecondaryObject
    IN  IF ev.Action = "HasBeenDestroyed"
        THEN IF secondary.present
             THEN LET attacker == strip(secondary.Pilot)
                  IN  IF /\ attacker # <<>>
                         /\ lower(attacker) # s_unknown
                         /\ is_player_client(attacker, aircraft, group)
                      THEN increment(missions,
                                     nickname_of(attacker),
                                     kill_category(primary.Coalition,
                                                   secondary.Coalition, primary.Type))
                      ELSE missions
             ELSE LET victim_nick == nickname_of(pilot)
                  IN  increment(increment(missions, victim_nick, "kia"),
                                victim_nick, "deaths")
        ELSE IF ev.Action = "HasLanded" THEN increment(missions, nickname, "rtb")
        ELSE IF ev.Action = "HasEjected" THEN increment(missions, nickname, "ejections")
        ELSE missions

\* lines 334-347: the position sample of the event; raises when float() rejects
\* the text of Time, Latitude or Longitude
location_raises(ev) ==
    /\ ev.Location.present
    /\ \/ ev.Time.kind = "bad"
       \/ /\ ev.Time.kind = "num" /\ ev.Time.val # 0
          /\ ev.Location.Latitude.kind # "none"
          /\ ev.Location.Longitude.kind # "none"
          /\ \/ ev.Location.Latitude.kind = "bad"
             \/ ev.Location.Longitude.kind = "bad"

has_sample(ev) ==
    /\ ev.Location.present
    /\ ev.Location.Latitude.kind = "num"
    /\ ev.Location.Longitude.kind = "num"
    /\ ev.Time.kind = "num" /\ ev.Time.val # 0

\* pilot_positions[key] of the defaultdict: reading a missing key creates it.
\* Line 343 reads it before float() of lines 344-345 raises.
touch_positions(positions, key) ==
    IF key \in DOMAIN positions THEN positions ELSE Put(positions, key, <<>>)

track_position(ev, positions, nickname) ==
    IF has_sample(ev)
    THEN Put(positions, nickname,
             Append(IF nickname \in DOMAIN positions THEN positions[nickname] ELSE <<>>,
                    [lat |-> ev.Location.Latitude.val,
                     lon |-> ev.Location.Longitude.val,
                     time |-> ev.Time.val]))
    ELSE positions

\* lines 318-332: alias and last-seen aircraft of an accepted primary
track_pilot(missions, nickname, pilot, aircraft) ==
    LET m == touch(missions, nickname)
        known == \E i \in DOMAIN m[nickname].nicknames : m[nickname].nicknames[i] = pilot
    IN  [m EXCEPT ![nickname] =
            [@ EXCEPT !.nicknames = IF known THEN @ ELSE Append(@, pilot),
                      !.aircraft = aircraft]]

\* the primary of the event passes lines 279-325; its sanitized label
primary_label(ev) == sanitize_string(strip(ev.PrimaryObject.Pilot), 100)

primary_aircraft(ev) ==
    sanitize_string(IF validate_aircraft_name(ev.PrimaryObject.Name)
                    THEN ev.PrimaryObject.Name ELSE s_Unknown, 100)

primary_accepted(ev) ==
    LET pilot == strip(ev.PrimaryObject.Pilot)
    IN  /\ ev.PrimaryObject.present
        /\ pilot # <<>> /\ lower(pilot) # s_unknown
        /\ validate_pilot_name(pilot)
        /\ is_player_client(primary_label(ev), primary_aircraft(ev),
                            ev.PrimaryObject.Group)
        /\ validate_pilot_name(nickname_of(primary_label(ev)))

\* process_event: the accumulators and position traces after the event.  An
\* exception raised in the middle is caught by the handler of lines 382-385,
\* which keeps what was written before it.
process_event(ev, missions, positions) ==
    IF ~primary_accepted(ev)
    THEN [pilot_missions |-> missions, pilot_positions |-> positions]
    ELSE LET pilot == primary_label(ev)
             aircraft == primary_aircraft(ev)
             nickname == nickname_of(pilot)
             tracked == track_pilot(missions, nickname, pilot, aircraft)
         IN  IF location_raises(ev)
             THEN [pilot_missions |-> tracked,
                   pilot_positions |-> IF ev.Time.kind = "num"
                                       THEN touch_positions(positions, nickname)
                                       ELSE positions]
             ELSE [pilot_missions |->
                       process_action(ev, tracked, pilot, nickname, aircraft,
                                      ev.PrimaryObject.Group),
                   pilot_positions |-> track_position(ev, positions, nickname)]

\* ----------------------------------------------------- flight-time estimator

METERS_PER_DEGREE == 111000
MOVEMENT_THRESHOLD == 100
STATIONARY_LIMIT == 900

\* calculate_distance(pos1, pos2) < 100.  A coordinate unit is 1e-4 degree, so
\* the distance is sqrt(d2) * 111 decimetres, compared with 1000 decimetres.
below_movement_threshold(pos1, pos2) ==
    LET d2 == (pos2.lat - pos1.lat) * (pos2.lat - pos1.lat)
              + (pos2.lon - pos1.lon) * (pos2.lon - pos1.lon)
    IN  d2 * (METERS_PER_DEGREE \div 1000) * (METERS_PER_DEGREE \div 1000)
          < (MOVEMENT_THRESHOLD * 10) * (MOVEMENT_THRESHOLD * 10)

\* positions.sort(key=lambda x: x['time']): a stable sort
RECURSIVE insert_by_time(_, _)
insert_by_time(sorted, pos) ==
    IF sorted = <<>> THEN <<pos>>
    ELSE IF sorted[Len(sorted)].time <= pos.time THEN Append(sorted, pos)
    ELSE Append(insert_by_time(SubSeq(sorted, 1, Len(sorted) - 1), pos),
                sorted[Len(sorted)])

RECURSIVE sort_by_time(_)
sort_by_time(positions) ==
    IF positions = <<>> THEN <<>>
    ELSE insert_by_time(sort_by_time(SubSeq(positions, 1, Len(positions) - 1)),
                        positions[Len(positions)])

\* lines 231-249: the loop over the sorted samples from index i on; last is the
\* index of last_position (0: None), start is <<stationary_start>> (<<>>: None)
RECURSIVE flight_loop(_, _, _, _, _)
flight_loop(positions, i, total, last, start) ==
    IF i > Len(positions) THEN total
    ELSE IF last = 0 THEN flight_loop(positions, i + 1, total, i, start)
    ELSE LET pos == positions[i]
             last_position == positions[last]
             time_diff == pos.time - last_position.time
         IN  IF below_movement_threshold(last_position, pos)
             THEN IF start = <<>>
                  THEN flight_loop(positions, i + 1, total + time_diff, i,
                                   <<last_position.time>>)
                  ELSE IF pos.time - start[1] > STATIONARY_LIMIT
                  THEN flight_loop(positions, i + 1, total, last, start)
                  ELSE flight_loop(positions, i + 1, total + time_diff, i, start)
             ELSE flight_loop(positions, i + 1, total + time_diff, i, <<>>)

\* total_flight_time without the sort of line 225
total_flight_time_unsorted(positions) == flight_loop(positions, 1, 0, 0, <<>>)

\* total_flight_time of one trace, in seconds
total_flight_time(positions) == flight_loop(sort_by_time(positions), 1, 0, 0, <<>>)

calculate_actual_flight_hours(missions, positions) ==
    [n \in DOMAIN missions |->
        IF n \in DOMAIN positions /\ positions[n] # <<>>
        THEN [missions[n] EXCEPT !.flight_minutes = total_flight_time(positions[n]) \div 60]
        ELSE missions[n]]

\* ---------------------------------------------------------------- finalizer

\* validate_numeric_value(value, field, min_val=0, max_val=10000), else 0
checked_number(value) == IF value >= 0 /\ value <= 10000 THEN value ELSE 0

\* f"{total_kills / deaths:.2f}": the quotient rounded to two decimals, halves
\* to the even digit
kd_format(total_kills, deaths) ==
    LET q == (100 * total_kills) \div deaths
        r == (100 * total_kills) % deaths
    IN  [kind |-> "ratio",
         hundredths |-> IF 2 * r > deaths \/ (2 * r = deaths /\ q % 2 = 1)
                        THEN q + 1 ELSE q]

\* lines 532-570: the record with its fields validated
validated(data) ==
    [data EXCEPT !.aa_kills = checked_number(@),
                 !.ag_kills = checked_number(@),
                 !.frat_kills = checked_number(@),
                 !.rtb = checked_number(@),
                 !.ejections = checked_number(@),
                 !.deaths = checked_number(@),
                 !.flight_minutes = checked_number(@),
                 !.aircraft = sanitize_string(IF validate_aircraft_name(@)
                                              THEN @ ELSE s_Unknown, 200)]

\* lines 576-578
total_activity(data) ==
    data.aa_kills + data.ag_kills + data.frat_kills + data.rtb + data.kia

\* line 580: the record goes to the output
is_kept(data) == total_activity(data) > 0 \/ data.flight_minutes > 0

\* with_totals counting the friendly-fire kills in total_kills
with_totals_counting_frat(data) ==
    LET total_kills == data.aa_kills + data.ag_kills + data.frat_kills
    IN  [data EXCEPT !.total_kills = total_kills,
                     !.kd_ratio = IF data.deaths = 0
                                  THEN (IF total_kills > 0 THEN KD_INF ELSE KD_NA)
                                  ELSE kd_format(total_kills, data.deaths)]

\* with_totals giving "N/A" whenever there are no kills
with_totals_na_without_kills(data) ==
    LET total_kills == data.aa_kills + data.ag_kills
    IN  [data EXCEPT !.total_kills = total_kills,
                     !.kd_ratio = IF total_kills = 0 THEN KD_NA
                                  ELSE IF data.deaths = 0 THEN KD_INF
                                  ELSE kd_format(total_kills, data.deaths)]

\* lines 581-593
with_totals(data) ==
    LET total_kills == data.aa_kills + data.ag_kills
    IN  [data EXCEPT !.total_kills = total_kills,
                     !.kd_ratio = IF data.deaths = 0
                                  THEN (IF total_kills > 0 THEN KD_INF ELSE KD_NA)
                                  ELSE kd_format(total_kills, data.deaths)]

finalize_pilot_data(missions) ==
    LET kept == {n \in DOMAIN missions : is_kept(validated(missions[n]))}
    IN  [n \in kept |-> with_totals(validated(missions[n]))]

\* ------------------------------------------------------------- dedup ledger

MAX_PROCESSED == 100

mission_key(mission_name, mission_date) == mission_name \o "_" \o mission_date

is_mission_already_processed(mission_name, mission_date) ==
    \E i \in DOMAIN processed_missions :
        processed_missions[i].key = mission_key(mission_name, mission_date)

\* the entries rearranged: entry j goes to the place place[j]
arranged(entries, place) ==
    [i \in DOMAIN entries |-> entries[CHOOSE j \in DOMAIN entries : place[j] = i]]

\* sorted(items, key=processed_at): a stable sort, each entry going to the place
\* given by the number of entries that sort before it
sort_by_processed_at(entries) ==
    LET before(k, j) ==
            \/ entries[k].processed_at < entries[j].processed_at
            \/ entries[k].processed_at = entries[j].processed_at /\ k < j
        place == [j \in DOMAIN entries |->
                    1 + Cardinality({k \in DOMAIN entries : before(k, j)})]
    IN  arranged(entries, SubSeq(place, 1, Len(entries)))

\* keep_latest keeping the first 100 of the sorted entries: sorted_missions[:100]
keep_earliest(entries) ==
    IF Len(entries) > MAX_PROCESSED
    THEN SubSeq(sort_by_processed_at(entries), 1, MAX_PROCESSED)
    ELSE entries

\* lines 902-907: sorted_missions[-100:]
keep_latest(entries) ==
    IF Len(entries) > MAX_PROCESSED
    THEN SubSeq(sort_by_processed_at(entries),
                Len(entries) - MAX_PROCESSED + 1, Len(entries))
    ELSE entries

\* mark_mission_as_processed storing the entry under the mission name alone
mark_mission_as_processed_keyed_by_name(ledger, mission_name, mission_date, now) ==
    LET key == mission_name
        entry == [key |-> key, mission_name |-> mission_name,
                  mission_date |-> mission_date, processed_at |-> now]
        present == {i \in DOMAIN ledger : ledger[i].key = key}
        added == IF present = {}
                 THEN Append(ledger, entry)
                 ELSE [i \in DOMAIN ledger |-> IF i \in present THEN entry ELSE ledger[i]]
    IN  keep_latest(added)

\* the ledger after mark_mission_as_processed at time now
mark_mission_as_processed(ledger, mission_name, mission_date, now) ==
    LET key == mission_key(mission_name, mission_date)
        entry == [key |-> key, mission_name |-> mission_name,
                  mission_date |-> mission_date, processed_at |-> now]
        present == {i \in DOMAIN ledger : ledger[i].key = key}
        added == IF present = {}
                 THEN Append(ledger, entry)
                 ELSE [i \in DOMAIN ledger |-> IF i \in present THEN entry ELSE ledger[i]]
    IN  keep_latest(added)

\* ------------------------------------------------------------------ pipeline

Empty == [x \in {} |-> 0]

\* parse_xml's outcomes: the returned dict, or the APIError it raises
Success(pilot_data) ==
    [kind |-> "success", duplicate |-> FALSE, error_code |-> "", status_code |-> 200,
     pilots_count |-> Cardinality(DOMAIN pilot_data), pilot_data |-> pilot_data]
Duplicate ==
    [kind |-> "success", duplicate |-> TRUE, error_code |-> "", status_code |-> 200,
     pilots_count |-> 0, pilot_data |-> Empty]
Raised(error_code, status_code) ==
    [kind |-> "error", duplicate |-> FALSE, error_code |-> error_code,
     status_code |-> status_code, pilots_count |-> 0, pilot_data |-> Empty]
NoResult ==
    [kind |-> "none", duplicate |-> FALSE, error_code |-> "", status_code |-> 0,
     pilots_count |-> 0, pilot_data |-> Empty]

\* lines 105-121: parse_xml on what parse_tacview_xml returned
outcome_of(pilot_data) ==
    IF DOMAIN pilot_data = {}
    THEN Raised("DATA_PROCESSING_ERROR", 400)
    ELSE Success(pilot_data)

\* the document reaches line 152: it exists, is named *.xml and ET.parse accepts it
parses(doc) == doc.file = "ok"

\* the document reaches the event loop of line 198
enters_loop(doc) ==
    /\ parses(doc)
    /\ ~is_mission_already_processed(doc.mission_name, doc.mission_date)
    /\ doc.has_events

\* parse_xml up to the event loop: the outcome of a call that ends before it
early_outcome(doc) ==
    IF doc.file = "missing" THEN Raised("FILE_NOT_FOUND", 404)
    ELSE IF doc.file = "not_xml" THEN Raised("FILE_INVALID_TYPE", 400)
    ELSE IF doc.file = "malformed" THEN outcome_of(Empty)
    ELSE IF is_mission_already_processed(doc.mission_name, doc.mission_date)
    THEN Duplicate
    ELSE outcome_of(Empty)

NotCalled == [called |-> FALSE, duplicate |-> FALSE, data |-> Empty]

early_returned(doc) ==
    IF doc.file \in {"missing", "not_xml"} THEN NotCalled
    ELSE [called |-> TRUE,
          duplicate |-> parses(doc) /\ is_mission_already_processed(doc.mission_name,
                                                                    doc.mission_date),
          data |-> Empty]

\* what is remembered of the document of a call, once the call has ended
CallOf(doc) ==
    [file |-> doc.file,
     has_events |-> parses(doc) /\ doc.has_events,
     mission_name |-> IF parses(doc) THEN doc.mission_name ELSE "",
     mission_date |-> IF parses(doc) THEN doc.mission_date ELSE "",
     fresh |-> ~(parses(doc) /\ is_mission_already_processed(doc.mission_name,
                                                             doc.mission_date))]
NoCall == [file |-> "", has_events |-> FALSE, mission_name |-> "", mission_date |-> "",
           fresh |-> FALSE]

\* parse_xml(filepath) up to the first event of the document
StartParse(doc) ==
    /\ pc = "idle"
    /\ IF enters_loop(doc)
       THEN /\ pc' = "events"
            /\ mission' = [name |-> doc.mission_name, date |-> doc.mission_date,
                           duration |-> doc.mission_duration]
            /\ events_done' = 0
            /\ event' = NoEvent
            /\ pilot_missions' = Empty
            /\ pilot_positions' = Empty
            /\ UNCHANGED <<returned, result, last_call>>
       ELSE /\ returned' = early_returned(doc)
            /\ result' = early_outcome(doc)
            /\ last_call' = CallOf(doc)
            /\ UNCHANGED <<pc, mission, events_done, event, pilot_missions,
                           pilot_positions>>
    /\ UNCHANGED <<player_profiles, squadron_callsigns, processed_missions, clock,
                   history, retry, file_call, upload, requests>>

\* one iteration of the loop of lines 198-199
ProcessEvent(ev) ==
    /\ pc = "events"
    /\ event' = ev
    /\ LET after == process_event(ev, pilot_missions, pilot_positions)
       IN  /\ pilot_missions' = after.pilot_missions
           /\ pilot_positions' = after.pilot_positions
    /\ events_done' = events_done + 1
    /\ UNCHANGED <<player_profiles, squadron_callsigns, processed_missions, clock, pc,
                   mission, returned, result, last_call, history, retry,
                   file_call, upload, requests>>

\* the passes that marked each key and the marks of other keys since the last one
note_mark(h, key) ==
    [k \in (DOMAIN h) \cup {key} |->
        IF k = key
        THEN [passes |-> IF k \in DOMAIN h THEN h[k].passes + 1 ELSE 1, since |-> 0]
        ELSE [h[k] EXCEPT !.since = IF @ < MAX_PROCESSED THEN @ + 1 ELSE @]]

\* lines 201-208 and parse_xml's lines 105-121: the end of the document
Finish ==
    /\ pc = "events"
    /\ LET missions == calculate_actual_flight_hours(pilot_missions, pilot_positions)
           finalized == finalize_pilot_data(missions)
       IN  /\ pilot_missions' = missions
           /\ returned' = [called |-> TRUE, duplicate |-> FALSE, data |-> finalized]
           /\ result' = outcome_of(finalized)
    /\ processed_missions' =
           mark_mission_as_processed(processed_missions, mission.name, mission.date, clock)
    /\ clock' = clock + 1
    /\ history' = note_mark(history, mission_key(mission.name, mission.date))
    /\ last_call' = [file |-> "ok", has_events |-> TRUE, mission_name |-> mission.name,
                     mission_date |-> mission.date, fresh |-> TRUE]
    /\ pc' = "idle"
    /\ event' = NoEvent
    /\ UNCHANGED <<player_profiles, squadron_callsigns, mission, events_done,
                   pilot_positions, retry, file_call, upload, requests>>

\* -------------------------------------------------------------------- inputs


\* the configurations a run starts from: no roster, and a roster naming Bones
Configs ==
    { [player_profiles |-> <<>>, squadron_callsigns |-> <<>>],
      [player_profiles |-> <<>>, squadron_callsigns |-> <<L_Bones>>] }

Object(pilot, name, type, coalition) ==
    [present |-> TRUE, Pilot |-> pilot, Name |-> name, Group |-> <<>>,
     Type |-> type, Coalition |-> coalition]

Bones == Object(L_Bones, A_F16C, "Aircraft", "Blue")
SpringfieldBones == Object(L_SpringfieldBones, A_F16C, "Aircraft", "")
FatalInTank == Object(L_Fatal, A_Tank, "Tank", "Red")
FatalNoSide == Object(L_Fatal, A_F16C, "Aircraft", "")
StaticArmor == Object(L_StaticArmor, A_T72, "Tank", "Red")
UnknownPilot == Object(s_Unknown, A_T72, "Tank", "Red")

\* <Group> of an entity, and Bones flying in that group
G_EnemyBots == <<"E","n","e","m","y"," ","B","o","t","s">>
BonesInEnemyGroup == [Bones EXCEPT !.Group = G_EnemyBots]

\* primaries some configuration accepts, and primaries every configuration rejects
Players == {Bones, SpringfieldBones, FatalInTank}
NonPlayers == {NoObject, StaticArmor, UnknownPilot}
Attackers == {Bones, FatalNoSide, UnknownPilot}

Num(n) == [kind |-> "num", val |-> n]
BadNum == [kind |-> "bad", val |-> 0]
NoNum == [kind |-> "none", val |-> 0]
Location(lat, lon) == [present |-> TRUE, Latitude |-> lat, Longitude |-> lon]

Actions == {"HasBeenDestroyed", "HasLanded", "HasEjected", "HasTakenOff"}

Event(action, primary, secondary, location, time) ==
    [Action |-> action, PrimaryObject |-> primary, SecondaryObject |-> secondary,
     Location |-> location, Time |-> time]

\* <Location> and <Time> of an event: absent, a sample, an unparsable latitude
Places ==
    { <<NoLocation, NoNum>>,
      <<Location(Num(0), Num(0)), Num(100)>>,
      <<Location(BadNum, Num(0)), Num(100)>> }

\* the events of the event interpreter's runs: every action on the primaries
\* that can be accepted, at every place; kills of every primary by every
\* attacker, without place or with an unparsable one; events of the primaries
\* that are rejected; a landing of a primary with a group label
Events ==
    { Event(a, p, NoObject, l[1], l[2]) :
        a \in Actions, p \in {Bones, FatalInTank}, l \in Places }
    \cup { Event("HasBeenDestroyed", p, s, l[1], l[2]) :
              p \in Players, s \in Attackers,
              l \in {<<NoLocation, NoNum>>, <<Location(BadNum, Num(0)), Num(100)>>} }
    \cup { Event(a, p, NoObject, NoLocation, NoNum) :
              a \in {"HasBeenDestroyed", "HasLanded"}, p \in NonPlayers }
    \cup { Event("HasBeenDestroyed", p, s, NoLocation, NoNum) :
              p \in NonPlayers, s \in Attackers }
    \cup { Event("HasLanded", BonesInEnemyGroup, NoObject, NoLocation, NoNum) }

\* the events of the pipeline's runs: a landing, a kill of an AI tank, an AI event
BasicEvents ==
    { Event("HasLanded", Bones, NoObject, Location(Num(0), Num(0)), Num(100)),
      Event("HasBeenDestroyed", StaticArmor, Bones, NoLocation, NoNum),
      Event("HasEjected", FatalInTank, NoObject, NoLocation, NoNum) }

Document(file, has_events, mission_name, mission_date, mission_duration) ==
    [file |-> file, has_events |-> has_events, mission_name |-> mission_name,
     mission_date |-> mission_date, mission_duration |-> mission_duration]

MissionNames == {"a", "a_b"}
MissionDates == {"c", "b_c"}
DEFAULT_DURATION == 2700

\* the documents of the pipeline's runs
Documents ==
    { Document("ok", h, n, d, DEFAULT_DURATION) :
        h \in BOOLEAN, n \in MissionNames, d \in MissionDates }
    \cup { Document(f, FALSE, "a", "c", DEFAULT_DURATION) :
             f \in {"missing", "not_xml", "malformed"} }

\* ------------------------------------------------------------ retry_operation

\* delays in tenths of a second: the default delay of retry_operation, the
\* delay of the wrapped file operations of lines 250-303; the default
\* backoff_factor
DEFAULT_DELAY == 10
FILE_OPERATION_DELAY == 5
DEFAULT_BACKOFF_FACTOR == 2

\* what one call of the wrapped function does: it returns, or raises an
\* exception of some type
Returns == [kind |-> "returns", type |-> ""]
Raises(type) == [kind |-> "raises", type |-> type]

\* an exception object: its type and the call of the wrapped function that
\* raised it (0: raised by the wrapper itself)
Exception(type, call) == [type |-> type, call |-> call]
NoException == Exception("", 0)

NotRetrying ==
    [status |-> "idle", max_attempts |-> 0, exceptions |-> {}, attempt |-> 0,
     calls |-> 0, last_exception |-> NoException, current_delay |-> 0, slept |-> 0,
     raised |-> NoException, log |-> <<>>]

\* except exceptions as e, catching every exception
caught_always(type, exceptions) == TRUE

\* the classes an exception of the type is an instance of: the file errors are
\* subclasses of OSError
classes_of(type) ==
    IF type \in {"FileNotFoundError", "PermissionError"} THEN {type, "OSError"} ELSE {type}

\* except exceptions as e
caught(type, exceptions) == classes_of(type) \cap exceptions # {}

\* lines 224-227 and 245: the wrapper is entered; with max_attempts = 0 the
\* loop has no iteration and "raise last_exception" raises None, a TypeError
retry_operation(max_attempts, delay, exceptions) ==
    LET entered == [status |-> "running", max_attempts |-> max_attempts,
                    exceptions |-> exceptions, attempt |-> 0, calls |-> 0,
                    last_exception |-> NoException, current_delay |-> delay,
                    slept |-> 0, raised |-> NoException, log |-> <<>>]
    IN  IF max_attempts > 0
        THEN entered
        ELSE [entered EXCEPT !.status = "raised", !.raised = Exception("TypeError", 0)]

\* lines 227-245: one iteration of the loop, and "raise last_exception" after
\* the last one
wrapper(r, outcome) ==
    LET call == r.calls + 1
        called == [r EXCEPT !.calls = call, !.log = Append(@, outcome)]
        e == Exception(outcome.type, call)
    IN  IF outcome.kind = "returns"
        THEN [called EXCEPT !.status = "returned"]
        ELSE IF ~caught(outcome.type, r.exceptions)
        THEN [called EXCEPT !.status = "raised", !.raised = e]
        ELSE IF r.attempt < r.max_attempts - 1
        THEN [called EXCEPT !.last_exception = e,
                            !.attempt = @ + 1,
                            !.slept = @ + r.current_delay,
                            !.current_delay = @ * DEFAULT_BACKOFF_FACTOR]
        ELSE [called EXCEPT !.last_exception = e, !.status = "raised", !.raised = e]

\* a wrapped function is called
RetryStart(max_attempts, delay, exceptions) ==
    /\ retry.status # "running"
    /\ retry' = retry_operation(max_attempts, delay, exceptions)
    /\ UNCHANGED <<player_profiles, squadron_callsigns, processed_missions, clock, pc,
                   mission, events_done, event, pilot_missions, pilot_positions,
                   returned, result, last_call, history, file_call, upload, requests>>

\* the wrapper calls the function once more
RetryAttempt(outcome) ==
    /\ retry.status = "running"
    /\ retry' = wrapper(retry, outcome)
    /\ UNCHANGED <<player_profiles, squadron_callsigns, processed_missions, clock, pc,
                   mission, events_done, event, pilot_missions, pilot_positions,
                   returned, result, last_call, history, file_call, upload, requests>>

\* ----------------------------------------------------- safe_json_* operations

\* @retry_operation(max_attempts=3, delay=0.5) of safe_file_save/safe_file_read
\* and of safe_json_save/safe_json_read; exceptions is the default tuple
\* (OSError, IOError), and IOError is OSError
FILE_MAX_ATTEMPTS == 3
JSON_MAX_ATTEMPTS == 3
DEFAULT_EXCEPTIONS == {"OSError"}

NoFileCall == [func |-> "", inner |-> NotRetrying, operations |-> <<>>]

\* what the call of safe_file_save or safe_file_read inside the body of
\* safe_json_save or safe_json_read does, seen from the outer wrapper: the
\* inner wrapper raised, or json.loads rejected what was read, or the body
\* returned
body_outcome(func, inner, decodes) ==
    IF inner.status = "raised" THEN Raises(inner.raised.type)
    ELSE IF func = "safe_json_read" /\ ~decodes THEN Raises("ValueError")
    ELSE Returns

\* safe_json_save(file_path, data) or safe_json_read(file_path) is called
JsonCall(func) ==
    /\ retry.status # "running"
    /\ retry' = retry_operation(JSON_MAX_ATTEMPTS, FILE_OPERATION_DELAY, DEFAULT_EXCEPTIONS)
    /\ file_call' = [func |-> func, inner |-> NotRetrying, operations |-> <<>>]
    /\ UNCHANGED <<player_profiles, squadron_callsigns, processed_missions, clock, pc,
                   mission, events_done, event, pilot_missions, pilot_positions,
                   returned, result, last_call, history, upload, requests>>

\* one attempt of the underlying file operation (makedirs/open/write, or
\* open/read) by the wrapper of safe_file_save or safe_file_read, which the
\* body of the outer function enters when it is not running; when the inner
\* wrapper ends, the outer wrapper's iteration ends with it
FileOperation(outcome, decodes) ==
    /\ retry.status = "running"
    /\ file_call.func # ""
    /\ LET entered == IF file_call.inner.status = "running"
                      THEN file_call.inner
                      ELSE retry_operation(FILE_MAX_ATTEMPTS, FILE_OPERATION_DELAY,
                                           DEFAULT_EXCEPTIONS)
           inner == wrapper(entered, outcome)
       IN  /\ file_call' = [file_call EXCEPT !.inner = inner,
                                             !.operations = Append(@, outcome)]
           /\ retry' = IF inner.status = "running"
                       THEN retry
                       ELSE wrapper(retry, body_outcome(file_call.func, inner, decodes))
    /\ UNCHANGED <<player_profiles, squadron_callsigns, processed_missions, clock, pc,
                   mission, events_done, event, pilot_missions, pilot_positions,
                   returned, result, last_call, history, upload, requests>>

\* ------------------------------------------------------------------ upload_xml

\* no request answered yet, nothing delivered to the profile store
NoUpload == [delivered |-> {}, status_code |-> 0, error_code |-> ""]
\* no request is being served
NoRequests == Empty

\* parse_xml has returned or raised and upload_xml has not yet answered
Answering == pc = "idle" /\ result.kind # "none"

\* lines 194-246 of upload_xml, after parse_xml: the statistics of a successful
\* parse with pilots go to update_profiles_from_data, which returns or raises
\* (mkdir, load_profile, save_profile); an APIError of parse_xml is raised
\* again, any other exception becomes FILE_PROCESSING_FAILED, 500
Respond(update_ok) ==
    /\ Answering
    /\ LET key == mission_key(last_call.mission_name, last_call.mission_date)
           updates == result.kind = "success" /\ DOMAIN result.pilot_data # {}
       IN  upload' =
               IF result.kind = "error"
               THEN [upload EXCEPT !.status_code = result.status_code,
                                   !.error_code = result.error_code]
               ELSE IF updates /\ ~update_ok
               THEN [upload EXCEPT !.status_code = 500,
                                   !.error_code = "FILE_PROCESSING_FAILED"]
               ELSE [delivered |-> IF updates THEN upload.delivered \cup {key}
                                   ELSE upload.delivered,
                     status_code |-> 200, error_code |-> ""]
    /\ result' = NoResult
    /\ UNCHANGED <<player_profiles, squadron_callsigns, processed_missions, clock, pc,
                   mission, events_done, event, pilot_missions, pilot_positions,
                   returned, last_call, history, retry, file_call, requests>>

\* ------------------------------------------------- overlapping upload requests

\* upload_xml takes no lock and neither does parse_tacview_xml: the requests the
\* server handles at the same time each run the pipeline, and their reads and
\* writes of processed_missions.json interleave.  A request is at "check"
\* (before line 153), "load" (the pass is under way, before line 892), "save"
\* (it holds its copy of the ledger, before line 910) or "done".

\* a request arrives with a document that parses
RequestArrives(r, doc) ==
    /\ r \notin DOMAIN requests
    /\ requests' = [q \in (DOMAIN requests) \cup {r} |->
                        IF q = r
                        THEN [pc |-> "check", mission_name |-> doc.mission_name,
                              mission_date |-> doc.mission_date,
                              duplicate |-> FALSE, processed_missions |-> <<>>]
                        ELSE requests[q]]
    /\ UNCHANGED <<player_profiles, squadron_callsigns, processed_missions, clock, pc,
                   mission, events_done, event, pilot_missions, pilot_positions,
                   returned, result, last_call, history, retry, file_call, upload>>

\* lines 152-155: the duplicate check reads the ledger file
RequestChecks(r) ==
    /\ r \in DOMAIN requests
    /\ requests[r].pc = "check"
    /\ requests' =
           [requests EXCEPT ![r] =
               IF is_mission_already_processed(@.mission_name, @.mission_date)
               THEN [@ EXCEPT !.pc = "done", !.duplicate = TRUE]
               ELSE [@ EXCEPT !.pc = "load"]]
    /\ UNCHANGED <<player_profiles, squadron_callsigns, processed_missions, clock, pc,
                   mission, events_done, event, pilot_missions, pilot_positions,
                   returned, result, last_call, history, retry, file_call, upload>>

\* lines 889-892 of mark_mission_as_processed: the ledger file is read
RequestLoads(r) ==
    /\ r \in DOMAIN requests
    /\ requests[r].pc = "load"
    /\ requests' = [requests EXCEPT ![r] =
                        [@ EXCEPT !.pc = "save",
                                  !.processed_missions = processed_missions]]
    /\ UNCHANGED <<player_profiles, squadron_callsigns, processed_missions, clock, pc,
                   mission, events_done, event, pilot_missions, pilot_positions,
                   returned, result, last_call, history, retry, file_call, upload>>

\* lines 894-910: the entry is added to the copy and the copy is written back
RequestSaves(r) ==
    /\ r \in DOMAIN requests
    /\ requests[r].pc = "save"
    /\ processed_missions' =
           mark_mission_as_processed(requests[r].processed_missions,
                                     requests[r].mission_name,
                                     requests[r].mission_date, clock)
    /\ clock' = clock + 1
    /\ requests' = [requests EXCEPT ![r] =
                        [@ EXCEPT !.pc = "done",
                                  !.processed_missions = processed_missions']]
    /\ UNCHANGED <<player_profiles, squadron_callsigns, pc,
                   mission, events_done, event, pilot_missions, pilot_positions,
                   returned, result, last_call, history, retry, file_call, upload>>

\* ------------------------------------------------------------ specifications

Init ==
    /\ \E c \in Configs :
          /\ player_profiles = c.player_profiles
          /\ squadron_callsigns = c.squadron_callsigns
    /\ processed_missions = <<>>
    /\ clock = 0
    /\ pc = "idle"
    /\ mission = [name |-> "", date |-> "", duration |-> 0]
    /\ events_done = 0
    /\ event = NoEvent
    /\ pilot_missions = Empty
    /\ pilot_positions = Empty
    /\ returned = NotCalled
    /\ result = NoResult
    /\ last_call = NoCall
    /\ history = Empty
    /\ retry = NotRetrying
    /\ file_call = NoFileCall
    /\ upload = NoUpload
    /\ requests = NoRequests

MaxEvents == 2

\* the pipeline: any documents, one after the other, with few kinds of events
Next ==
    \/ \E doc \in Documents : StartParse(doc)
    \/ events_done < MaxEvents /\ \E ev \in BasicEvents : ProcessEvent(ev)
    \/ Finish

Spec == Init /\ [][Next]_vars

\* the event interpreter: one document, any events
OneDocument == Document("ok", TRUE, "a", "c", DEFAULT_DURATION)

NextEvents ==
    \/ StartParse(OneDocument)
    \/ events_done < MaxEvents /\ \E ev \in Events : ProcessEvent(ev)
    \/ Finish

SpecEvents == Init /\ [][NextEvents]_vars

\* the flight-time estimator: one document, take-offs of one pilot at any of
\* these places and times, in any order
FlightLatitudes == {0, 9, 10}
FlightTimes == {100, 400, 1100}
FlightEvents ==
    { Event("HasTakenOff", Bones, NoObject, Location(Num(lat), Num(0)), Num(t)) :
        lat \in FlightLatitudes, t \in FlightTimes }

MaxSamples == 4

NextFlight ==
    \/ StartParse(OneDocument)
    \/ events_done < MaxSamples /\ \E ev \in FlightEvents : ProcessEvent(ev)
    \/ Finish

\* the verdicts of the classifier do not matter here: no roster
InitNoRoster == Init /\ squadron_callsigns = <<>>

SpecFlight == InitNoRoster /\ [][NextFlight]_vars

\* the dedup ledger: one mission submitted again and again among fresh missions,
\* each document holding one landing
RECURSIVE decimal(_)
decimal(n) ==
    IF n < 10 THEN DigitChars[n + 1]
    ELSE decimal(n \div 10) \o DigitChars[(n % 10) + 1]

Landing == Event("HasLanded", Bones, NoObject, NoLocation, NoNum)
TrackedDocument == Document("ok", TRUE, "tracked", "2024-01-01", DEFAULT_DURATION)
FreshDocument == Document("ok", TRUE, "fresh" \o decimal(clock), "2024-01-01",
                          DEFAULT_DURATION)

MaxUploads == 102

NextLedger ==
    \/ StartParse(TrackedDocument)
    \/ clock < MaxUploads /\ StartParse(FreshDocument)
    \/ events_done = 0 /\ ProcessEvent(Landing)
    \/ events_done = 1 /\ Finish

SpecLedger == InitNoRoster /\ [][NextLedger]_vars

\* upload_xml: one request at a time, each answered before the next is taken
UploadDocuments ==
    { OneDocument, TrackedDocument,
      Document("ok", FALSE, "a", "c", DEFAULT_DURATION),
      Document("missing", FALSE, "a", "c", DEFAULT_DURATION) }

NextUpload ==
    \/ ~Answering /\ \E doc \in UploadDocuments : StartParse(doc)
    \/ events_done < MaxEvents /\ \E ev \in BasicEvents : ProcessEvent(ev)
    \/ Finish
    \/ \E update_ok \in BOOLEAN : Respond(update_ok)

SpecUpload == Init /\ [][NextUpload]_vars

\* overlapping requests: each uploads one of three missions
MaxRequests == 2
RequestDocuments ==
    { OneDocument, TrackedDocument,
      Document("ok", TRUE, "a", "2024-01-01", DEFAULT_DURATION) }

NextRequests ==
    \/ \E r \in 1..MaxRequests, doc \in RequestDocuments : RequestArrives(r, doc)
    \/ \E r \in 1..MaxRequests : RequestChecks(r)
    \/ \E r \in 1..MaxRequests : RequestLoads(r)
    \/ \E r \in 1..MaxRequests : RequestSaves(r)

SpecRequests == InitNoRoster /\ [][NextRequests]_vars

\* the retry wrapper: any max_attempts up to the bound, any tuple of exception
\* types to retry, a wrapped function that returns or raises at each call
MaxAttempts == 3
Delays == {DEFAULT_DELAY, FILE_OPERATION_DELAY}
ExceptionTypes == {"OSError", "ValueError"}
ExceptionTuples == {{"OSError"}, {"ValueError"}, {"OSError", "ValueError"}}
Outcomes == {Returns} \cup {Raises(type) : type \in ExceptionTypes}

NextRetry ==
    \/ \E n \in 0..MaxAttempts, delay \in Delays, exceptions \in ExceptionTuples :
          RetryStart(n, delay, exceptions)
    \/ \E outcome \in Outcomes : RetryAttempt(outcome)

SpecRetry == InitNoRoster /\ [][NextRetry]_vars

\* the JSON file operations: what each attempt of the underlying file
\* operation does, and whether what was read is JSON
JsonFunctions == {"safe_json_save", "safe_json_read"}
FileOutcomes ==
    {Returns, Raises("OSError"), Raises("FileNotFoundError"), Raises("ValueError")}

NextJson ==
    \/ \E func \in JsonFunctions : JsonCall(func)
    \/ \E outcome \in FileOutcomes, decodes \in BOOLEAN : FileOperation(outcome, decodes)

SpecJson == InitNoRoster /\ [][NextJson]_vars

\* ------------------------------------------------------- pipeline properties

\* the call remembered in c was made on a document that parses, has an Events
\* section and whose mission was not in the ledger
ValidFresh(c) == c.file = "ok" /\ c.has_events /\ c.fresh

\* the step is a call on a valid document of the mission of the last call
SameMissionAgain ==
    \E doc \in Documents :
        /\ parses(doc) /\ doc.has_events
        /\ doc.mission_name = last_call.mission_name
        /\ doc.mission_date = last_call.mission_date
        /\ StartParse(doc)

\* C1: when the pipeline runs twice in succession on a valid document of one
\* mission name and date, the first call returns a non-duplicate result and the
\* second returns the duplicate outcome without processing an event or changing
\* an accumulator
C1_SecondRunIsDuplicate ==
    [][(pc = "idle" /\ returned.called /\ ValidFresh(last_call) /\ SameMissionAgain)
         => /\ result.kind = "success" /\ ~result.duplicate
            /\ pc' = "idle"
            /\ result' = Duplicate
            /\ UNCHANGED <<events_done, pilot_missions, pilot_positions>>]_vars

\* C6: a document that parses and has an Events section with zero events ends
\* in an empty result mapping, not in an error
C6_ZeroEventsIsEmptyResult ==
    (pc = "idle" /\ returned.called /\ ValidFresh(last_call) /\ events_done = 0)
        => (result.kind = "success" /\ result.pilot_data = Empty)

\* how the last call ended, as far as C7 tells the ends apart
CallClass ==
    IF last_call.file = "malformed" THEN "malformed"
    ELSE IF last_call.file = "ok" /\ ~last_call.has_events /\ last_call.fresh
    THEN "no_events_section"
    ELSE IF ValidFresh(last_call) /\ returned.called /\ returned.data = Empty
    THEN "no_pilots"
    ELSE "other"

\* C7: a document that cannot be parsed and a document without Events section
\* end in errors, and these two ends and the end of a valid document with no
\* pilots are told apart by the caller
C7_DistinctFailures ==
    [][(pc' = "idle" /\ CallClass # "other" /\ CallClass' # "other")
         => /\ CallClass' \in {"malformed", "no_events_section"}
                => result'.kind = "error"
            /\ CallClass' # CallClass
                => <<result'.kind, result'.error_code>> # <<result.kind, result.error_code>>]_vars

\* ----------------------------------------------- event interpreter properties

\* the step is one iteration of the event loop; event' is its event
LoopStep == pc = "events" /\ events_done' = events_done + 1

\* a destroyed-with-secondary event whose place and time, if any, are numbers
IsKill(ev) ==
    /\ ev.Action = "HasBeenDestroyed"
    /\ ev.PrimaryObject.present
    /\ ev.SecondaryObject.present
    /\ ~location_raises(ev)

\* the attacker of the event is a combatant by its own label, aircraft and group
attacker_accepted(ev) ==
    LET attacker == strip(ev.SecondaryObject.Pilot)
    IN  /\ attacker # <<>> /\ lower(attacker) # s_unknown
        /\ is_player_client(attacker, ev.SecondaryObject.Name, ev.SecondaryObject.Group)

attacker_nickname(ev) == nickname_of(strip(ev.SecondaryObject.Pilot))

\* the value of a counter of an identity; 0 while it has no accumulator
Counter(missions, n, field) == IF n \in DOMAIN missions THEN missions[n][field] ELSE 0

KillFields == {"aa_kills", "ag_kills", "frat_kills"}

Kills(missions, n) ==
    Counter(missions, n, "aa_kills") + Counter(missions, n, "ag_kills")
        + Counter(missions, n, "frat_kills")

\* C3: a kill event whose attacker is an accepted combatant increments exactly
\* one kill counter of the attacker's identity, also when the destroyed primary
\* is rejected
C3_KillCountedForRejectedVictim ==
    [][(LoopStep /\ IsKill(event') /\ attacker_accepted(event'))
         => Kills(pilot_missions', attacker_nickname(event'))
              = Kills(pilot_missions, attacker_nickname(event')) + 1]_vars

\* the category of a kill as the rules state it
IsFriendlyFire(ev) ==
    /\ ev.PrimaryObject.Coalition = ev.SecondaryObject.Coalition
    /\ ev.PrimaryObject.Coalition # ""
IsGroundKill(ev) == ~IsFriendlyFire(ev) /\ ev.PrimaryObject.Type \in ground_types
IsAirKill(ev) == ~IsFriendlyFire(ev) /\ ev.PrimaryObject.Type \notin ground_types

\* the step adds 1 to the counter field of identity n and changes no other kill
\* counter of any identity
OnlyIncrements(n, field) ==
    \A m \in DOMAIN pilot_missions' \cup {n} : \A f \in KillFields :
        Counter(pilot_missions', m, f)
          = Counter(pilot_missions, m, f) + (IF m = n /\ f = field THEN 1 ELSE 0)

NoKillCounted ==
    \A m \in DOMAIN pilot_missions' : \A f \in KillFields :
        Counter(pilot_missions', m, f) = Counter(pilot_missions, m, f)

PassEnded == pc = "idle" /\ returned.called /\ ~returned.duplicate /\ ValidFresh(last_call)

\* C5: the finalizer drops an accumulator exactly when its air kills, ground
\* kills, friendly-fire kills, RTB, ejections, deaths and flight minutes are all
\* zero
C5_DroppedIffNoActivity ==
    PassEnded =>
        \A n \in DOMAIN pilot_missions :
            (n \notin DOMAIN returned.data)
              <=> /\ pilot_missions[n].aa_kills = 0
                  /\ pilot_missions[n].ag_kills = 0
                  /\ pilot_missions[n].frat_kills = 0
                  /\ pilot_missions[n].rtb = 0
                  /\ pilot_missions[n].ejections = 0
                  /\ pilot_missions[n].deaths = 0
                  /\ pilot_missions[n].flight_minutes = 0

\* C8: an event whose latitude, longitude or time is not a number is skipped as
\* a whole: it creates no accumulator and changes no alias, aircraft, counter
\* or position trace
C8_MalformedEventLeavesNoTrace ==
    [][(LoopStep /\ location_raises(event'))
         => UNCHANGED <<pilot_missions, pilot_positions>>]_vars

\* ------------------------------------------------- flight-time properties

\* the time credited to the interval that ends at sample i of a time-sorted
\* trace, the stationary run it belongs to having started at time start
\* (<<>>: the samples before it moved): the whole interval while the samples
\* move, and within a stationary run only the part before the run is 900 s old
RECURSIVE credited_from(_, _, _)
credited_from(trace, i, start) ==
    IF i > Len(trace) THEN 0
    ELSE LET from == trace[i - 1].time
             to == trace[i].time
         IN  IF below_movement_threshold(trace[i - 1], trace[i])
             THEN LET began == IF start = <<>> THEN from ELSE start[1]
                      limit == began + STATIONARY_LIMIT
                      part == IF to <= limit THEN to - from
                              ELSE IF from >= limit THEN 0
                              ELSE limit - from
                  IN  part + credited_from(trace, i + 1, <<began>>)
             ELSE (to - from) + credited_from(trace, i + 1, <<>>)

credited_time(positions) == credited_from(sort_by_time(positions), 2, <<>>)

\* C9: the flight time of a trace is the time elapsed between consecutive
\* time-sorted samples, except the time elapsed in a stationary run after the
\* run has lasted more than 900 s, which stays excluded after movement resumes
C9_StationaryTailExcluded ==
    PassEnded =>
        \A n \in DOMAIN pilot_positions \cap DOMAIN pilot_missions :
            pilot_positions[n] # <<>>
              => pilot_missions[n].flight_minutes
                   = credited_time(pilot_positions[n]) \div 60

AllSamePosition(positions) ==
    \A i, j \in DOMAIN positions :
        positions[i].lat = positions[j].lat /\ positions[i].lon = positions[j].lon

\* C10: a trace whose samples all have one position has flight time 0,
\* whatever the times of the samples
C10_StationaryTraceIsZero ==
    PassEnded =>
        \A n \in DOMAIN pilot_positions \cap DOMAIN pilot_missions :
            (pilot_positions[n] # <<>> /\ AllSamePosition(pilot_positions[n]))
              => pilot_missions[n].flight_minutes = 0

\* ------------------------------------------------------- ledger properties

RecentlyProcessed(k) == k \in DOMAIN history /\ history[k].since < MAX_PROCESSED

Fatal101st == [callsign |-> L_Fatal, aliases |-> <<>>]
ClassifierConfigs ==
    { [player_profiles |-> <<>>, squadron_callsigns |-> <<>>],
      [player_profiles |-> <<>>, squadron_callsigns |-> <<L_Machinegun817>>],
      [player_profiles |-> <<Fatal101st>>, squadron_callsigns |-> <<>>],
      [player_profiles |-> <<Fatal101st>>, squadron_callsigns |-> <<L_Bones>>] }

\* entities of the classifier's runs: a label, an aircraft, no group
Entity(pilot, name) == Object(pilot, name, "Aircraft", "Blue")
Entities ==
    { Entity(L_StaticArmorRed, A_Tank), Entity(L_Gunner, A_Hind),
      Entity(L_817, A_F16C), Entity(L_Bones, A_F16C), Entity(L_Bones, A_T72),
      Entity(L_Fatal, A_F16C), Entity(L_Fatal, A_T72),
      Entity(L_DrunkBonsai, A_F16C), Entity(L_HHCSix, A_F16C),
      Entity(L_MachinegunGunner, A_F16C), Entity(L_SpringfieldBones, A_F16C),
      Entity(L_UnknownPilot, A_F16C), Entity(L_SixBones, A_F16C) }

\* attackers and victims of the kills of the classifier's runs
Shooters == {Entity(L_Bones, A_F16C), Entity(L_StaticArmor, A_T72)}
Victims == {Entity(L_Fatal, A_F16C), Entity(L_Fatal, A_T72), Entity(L_Bones, A_F16C)}

\* a landing of every entity, and every kill of a victim by a shooter
ClassifierEvents ==
    { Event("HasLanded", p, NoObject, NoLocation, NoNum) : p \in Entities }
    \cup { Event("HasBeenDestroyed", p, s, NoLocation, NoNum) :
              p \in Victims, s \in Shooters }

InitClassifier ==
    /\ \E c \in ClassifierConfigs :
          /\ player_profiles = c.player_profiles
          /\ squadron_callsigns = c.squadron_callsigns
    /\ processed_missions = <<>>
    /\ clock = 0
    /\ pc = "idle"
    /\ mission = [name |-> "", date |-> "", duration |-> 0]
    /\ events_done = 0
    /\ event = NoEvent
    /\ pilot_missions = Empty
    /\ pilot_positions = Empty
    /\ returned = NotCalled
    /\ result = NoResult
    /\ last_call = NoCall
    /\ history = Empty
    /\ retry = NotRetrying
    /\ file_call = NoFileCall
    /\ upload = NoUpload
    /\ requests = NoRequests

NextClassifier ==
    \/ StartParse(OneDocument)
    \/ events_done < MaxEvents /\ \E ev \in ClassifierEvents : ProcessEvent(ev)
    \/ Finish

SpecClassifier == InitClassifier /\ [][NextClassifier]_vars

\* ------------------------------------------------------ classifier properties

\* the step is the landing of a primary; the landing is counted for the
\* identity of its label when the primary is accepted, and nothing changes
\* when it is rejected
LandingStep == LoopStep /\ event'.Action = "HasLanded" /\ event'.PrimaryObject.present

LandingCounted ==
    LET n == nickname_of(strip(event'.PrimaryObject.Pilot))
    IN  Counter(pilot_missions', n, "rtb") = Counter(pilot_missions, n, "rtb") + 1

LandingIgnored == UNCHANGED <<pilot_missions, pilot_positions>>

\* C11: a label that is not a known player and whose aircraft label is "Tank",
\* such as "Static Armor RED-B-7-1", is rejected, with or without a roster
C11_TankLabelRejected ==
    [][(LandingStep /\ event'.PrimaryObject.Pilot = L_StaticArmorRed
          /\ event'.PrimaryObject.Name = A_Tank
          /\ ~is_known_player(L_StaticArmorRed))
         => LandingIgnored]_vars

\* the parts of a label written "flight | personal" or "flight - personal"
SidesOf(label, sep) ==
    LET parts == split(label, sep)
    IN  IF Len(parts) = 2 THEN {lower(strip(parts[1])), lower(strip(parts[2]))} ELSE {}

\* the label contains a roster callsign or is contained in one, or one side of
\* the label contains a roster callsign
OnRoster(label) ==
    \E i \in DOMAIN squadron_callsigns :
        LET c == lower(squadron_callsigns[i])
        IN  \/ contains(lower(label), c)
            \/ contains(c, lower(label))
            \/ \E side \in SidesOf(label, <<"|">>) \cup SidesOf(label, <<" ", "-", " ">>) :
                  contains(side, c)

C13_FirstRuleDecides ==
    [][LandingStep
         => /\ is_known_player(event'.PrimaryObject.Pilot) => LandingCounted
            /\ (~is_known_player(event'.PrimaryObject.Pilot)
                  /\ ~aircraft_allowed(event'.PrimaryObject.Name))
                 => LandingIgnored]_vars

\* with "Fatal 101st" a known player and "Bones" on the roster: the landing of
\* Fatal in a T-72 was counted, the landing of Bones in a T-72 was ignored
C13_KnownInTankRosterInTank ==
    /\ player_profiles = <<Fatal101st>> /\ squadron_callsigns = <<L_Bones>>
    /\ pc = "events" /\ events_done = 2
    /\ event = Event("HasLanded", Entity(L_Bones, A_T72), NoObject, NoLocation, NoNum)
    /\ DOMAIN pilot_missions = {nickname_of(L_Fatal)}
    /\ pilot_missions[nickname_of(L_Fatal)].rtb = 1
    /\ pilot_missions[nickname_of(L_Fatal)].aircraft = A_T72

\* -------------------------------------------------------- resolver properties

\* the identities under which the step counted a landing
LandedKeys ==
    {k \in DOMAIN pilot_missions' :
        Counter(pilot_missions', k, "rtb") = Counter(pilot_missions, k, "rtb") + 1}

\* every fragment of the table's entry is part of the text
FullMatch(entry, text) ==
    \A j \in DOMAIN entry.fragments : contains(text, entry.fragments[j])

\* id is the nickname of an entry that fully matches the text and has no fully
\* matching entry before it, or no entry matches and id is the text itself
FirstFullMatch(id, text, table) ==
    \/ \E i \in DOMAIN table :
          /\ FullMatch(table[i], text)
          /\ \A j \in 1..(i - 1) : ~FullMatch(table[j], text)
          /\ id = table[i].nickname
    \/ /\ \A i \in DOMAIN table : ~FullMatch(table[i], text)
       /\ id = text

\* the labels of test_nickname_matcher.py and their normalized forms and
\* identities, and a label that fully matches the entries of six and of bones
Normalized ==
    (L_DrunkBonsai :> <<"d","r","u","n","k","b","o","n","s","a","i">>)
    @@ (L_HHCSix :> <<"h","h","c","2","2","9","s","i","x">>)
    @@ (L_MachinegunGunner :> <<"m","a","c","h","i","n","e","g","u","n","8","1","7","g","u","n","n","e","r">>)
    @@ (L_SpringfieldBones :> <<"s","p","r","i","n","g","f","i","e","l","d","b","o","n","e","s">>)
    @@ (L_Fatal :> <<"f","a","t","a","l","1","0","1","s","t">>)
    @@ (L_UnknownPilot :> <<"u","n","k","n","o","w","n","p","i","l","o","t">>)
    @@ (L_SixBones :> <<"s","p","r","i","n","g","f","i","e","l","d","b","o","n","e","s","h","h","c","2","2","9","s","i","x">>)
    @@ (L_Gunner :> <<"g","u","n","n","e","r","1","m","a","c","h","i","n","e","g","u","n","8","1","7">>)
    @@ (L_StaticArmorRed :> <<"s","t","a","t","i","c","a","r","m","o","r","r","e","d","b","7","1">>)
    @@ (L_Bones :> <<"b","o","n","e","s">>)
    @@ (L_817 :> <<"8","1","7">>)

Expected ==
    (L_DrunkBonsai :> <<"d","r","u","n","k","b","o","n","s","a","i">>)
    @@ (L_HHCSix :> <<"s","i","x">>)
    @@ (L_MachinegunGunner :> <<"m","a","c","h","i","n","e","g","u","n","8","1","7">>)
    @@ (L_SpringfieldBones :> <<"b","o","n","e","s">>)
    @@ (L_Fatal :> <<"f","a","t","a","l">>)
    @@ (L_UnknownPilot :> <<"u","n","k","n","o","w","n","p","i","l","o","t">>)
    @@ (L_SixBones :> <<"s","i","x">>)

\* C14: the identity of a label is the nickname of the first entry of the
\* table, in insertion order, all of whose fragments are part of the label
\* with its non-word characters removed and lowercased, and that normalized
\* label itself when no entry matches; every resolution gives an identity, and
\* the same label always gives the same one
C14_FirstFullMatchWins ==
    [][(LandingStep /\ pilot_missions' # pilot_missions)
         => LET label == event'.PrimaryObject.Pilot
            IN  /\ label \in DOMAIN Normalized
                /\ \E k \in DOMAIN pilot_missions' :
                      /\ LandedKeys = {k}
                      /\ FirstFullMatch(k, Normalized[label], DEFAULT_FRAGMENTS)
                      /\ label \in DOMAIN Expected => k = Expected[label]
                      /\ \A other \in DOMAIN pilot_missions' :
                            label \in Range(pilot_missions'[other].nicknames)
                              => other = k]_vars

\* "Springfield Bones HHC 229 Six" has landed as six, the earlier of its two
\* full matches, and "Unknown Pilot" as unknownpilot
C14_SixBeforeBones ==
    /\ pc = "events" /\ events_done = 2
    /\ DOMAIN pilot_missions = {Expected[L_HHCSix], Expected[L_UnknownPilot]}
    /\ pilot_missions[Expected[L_HHCSix]].nicknames = <<L_SixBones>>
    /\ pilot_missions[Expected[L_HHCSix]].rtb = 1
    /\ pilot_missions[Expected[L_UnknownPilot]].nicknames = <<L_UnknownPilot>>

\* ------------------------------------------------------- finalizer properties

\* the finalized records of the last call
Finalized == {returned.data[n] : n \in DOMAIN returned.data}

\* C16: in every finalized record total_kills is the air kills plus the ground
\* kills; the friendly-fire kills are not part of it
C16_TotalKillsExcludeFrat ==
    \A rec \in Finalized : rec.total_kills = rec.aa_kills + rec.ag_kills

\* a finalized record with one friendly-fire kill and one air kill, total 1
C16_FratAndAirKill ==
    \E rec \in Finalized :
        rec.frat_kills = 1 /\ rec.aa_kills = 1 /\ rec.ag_kills = 0 /\ rec.total_kills = 1

\* C17: in every finalized record kd_ratio is "N/A" exactly when total kills
\* and deaths are both 0, the infinity sentinel exactly when total kills > 0
\* and deaths = 0, and otherwise (deaths > 0) the ratio kills/deaths written
\* with two decimals
C17_KdRatioCases ==
    \A rec \in Finalized :
        /\ rec.kd_ratio.kind \in {"N/A", "inf", "ratio"}
        /\ rec.kd_ratio.kind = "N/A" <=> (rec.total_kills = 0 /\ rec.deaths = 0)
        /\ rec.kd_ratio.kind = "inf" <=> (rec.total_kills > 0 /\ rec.deaths = 0)
        /\ rec.kd_ratio.kind = "ratio" <=> rec.deaths > 0
        /\ rec.kd_ratio.kind = "ratio"
             => LET diff == 100 * rec.total_kills - rec.kd_ratio.hundredths * rec.deaths
                IN  2 * diff <= rec.deaths /\ -2 * diff <= rec.deaths

\* a finalized record with a death and no kill, ratio 0.00, next to a record
\* with a kill and no death
C17_DeathWithoutKill ==
    /\ \E rec \in Finalized :
          rec.deaths = 1 /\ rec.total_kills = 0 /\ rec.kd_ratio = [kind |-> "ratio", hundredths |-> 0]
    /\ \E rec \in Finalized :
          rec.deaths = 0 /\ rec.total_kills = 1 /\ rec.kd_ratio = KD_INF

\* --------------------------------------------------- dedup ledger properties

\* the step ends a call of parse_xml
CallEnds == pc' = "idle"

\* C18: the ledger is written only by a fully successful pass: a call that
\* ends without a successful result leaves the ledger unchanged
C18_FailedPassLeavesLedger ==
    [][(CallEnds /\ result'.kind # "success") => UNCHANGED processed_missions]_vars

\* the (mission name, mission date) pairs the ledger holds
LedgerPairs ==
    {<<processed_missions[i].mission_name, processed_missions[i].mission_date>> :
        i \in DOMAIN processed_missions}

\* C20: two submissions are the same mission if and only if their names and
\* their dates are equal: a submission is rejected as duplicate only when the
\* ledger holds its (name, date) pair, and two different pairs have different
\* ledger keys
C20_KeyIsLiteralPair ==
    [][(CallEnds /\ result' = Duplicate)
         => <<last_call'.mission_name, last_call'.mission_date>> \in LedgerPairs]_vars

\* --------------------------------------------------- attacker classification

\* C19: in a kill event the attacker is accepted or rejected by its own label,
\* aircraft and group and the configuration, whatever the aircraft and group
\* of the destroyed primary: when the primary is accepted, the kill is counted
\* for the attacker exactly when the classifier accepts the secondary entity
C19_AttackerJudgedOnItsOwn ==
    [][(LoopStep /\ IsKill(event') /\ primary_accepted(event'))
         => (Kills(pilot_missions', attacker_nickname(event'))
               = Kills(pilot_missions, attacker_nickname(event')) + 1
             <=> attacker_accepted(event'))]_vars

\* ----------------------------------------------------------- retry properties

\* the i-th call of the wrapped function raised an exception of the tuple
FailedRetryably(i) ==
    retry.log[i].kind = "raises" /\ retry.log[i].type \in retry.exceptions

\* C15: the wrapped function is called until it returns or has raised an
\* exception of the tuple max_attempts times: a success on call k returns
\* after exactly k calls, max_attempts failures in a row re-raise the last
\* exception after exactly max_attempts calls, and an exception that is not of
\* the tuple propagates from the call that raised it, with no call after it
C15_CalledUntilSuccessOrLimit ==
    LET k == retry.calls
    IN  /\ k = Len(retry.log) /\ k <= retry.max_attempts
        /\ \A i \in 1..(k - 1) : FailedRetryably(i)
        /\ retry.status = "running" => (k < retry.max_attempts /\ \A i \in 1..k : FailedRetryably(i))
        /\ retry.status = "returned" <=> (k >= 1 /\ retry.log[k].kind = "returns")
        /\ (k >= 1 /\ retry.log[k].kind = "raises")
             => IF FailedRetryably(k)
                THEN retry.status = "raised" <=> k = retry.max_attempts
                ELSE retry.status = "raised"
        /\ (retry.status = "raised" /\ k >= 1)
             => retry.raised = Exception(retry.log[k].type, k)
        /\ (retry.status = "raised" /\ retry.max_attempts >= 1) => k >= 1

\* three OSError in a row with max_attempts = 3: the third is raised; and the
\* wrapper slept 1 s and 2 s before the second and the third call
C15_ThirdFailureRaised ==
    /\ retry.status = "raised" /\ retry.max_attempts = 3
    /\ retry.exceptions = {"OSError"}
    /\ retry.log = <<Raises("OSError"), Raises("OSError"), Raises("OSError")>>
    /\ retry.raised = Exception("OSError", 3)
    /\ retry.slept = 30

\* ------------------------------------------------------ few samples, ledger cap

\* the position samples of an identity in the last pass
SampleCount(n) == IF n \in DOMAIN pilot_positions THEN Len(pilot_positions[n]) ELSE 0

\* C22: an identity with fewer than 2 position samples keeps the flight_minutes
\* seeded from the mission duration; only a trace of 2 or more samples
\* overwrites it
C22_FewSamplesKeepSeed ==
    PassEnded =>
        \A n \in DOMAIN pilot_missions :
            SampleCount(n) < 2
              => pilot_missions[n].flight_minutes = mission.duration \div 60

\* the keys of a ledger
KeysOf(ledger) == {ledger[i].key : i \in DOMAIN ledger}

\* the entries of processed_missions the step removes
Evicted == {e \in Range(processed_missions) : e.key \notin KeysOf(processed_missions')}

\* the step ends a pass: it is the one that calls mark_mission_as_processed
MarkStep == pc = "events" /\ pc' = "idle"

\* C23: the ledger never holds more than 100 entries; a mark that would exceed
\* the cap removes exactly the entries with the oldest processing times, as
\* many as exceed the cap, and the mission just marked stays
C23_CapEvictsOldest ==
    [][MarkStep
         => /\ Len(processed_missions') <= MAX_PROCESSED
            /\ Cardinality(KeysOf(processed_missions')) = Len(processed_missions')
            /\ mission_key(mission.name, mission.date) \in KeysOf(processed_missions')
            /\ \A e \in Evicted : \A kept \in Range(processed_missions') :
                  e.processed_at < kept.processed_at
            /\ Cardinality(Evicted)
                 = IF Len(processed_missions) = MAX_PROCESSED
                      /\ mission_key(mission.name, mission.date) \notin KeysOf(processed_missions)
                   THEN 1 ELSE 0]_vars

\* the ledger is full, its oldest entry was removed, and the mission marked
\* last is its newest entry
C23_OldestGone ==
    /\ pc = "idle"
    /\ Len(processed_missions) = MAX_PROCESSED
    /\ clock = MAX_PROCESSED + 1
    /\ \A i \in DOMAIN processed_missions : processed_missions[i].processed_at >= 1
    /\ processed_missions[MAX_PROCESSED].key = mission_key(mission.name, mission.date)
    /\ processed_missions[MAX_PROCESSED].processed_at = MAX_PROCESSED

\* ------------------------------------------------------- lexical heuristics

\* the label is a word followed by digits, such as a callsign and a number
WordThenDigits(label) ==
    \E k \in 1..(Len(label) - 1) :
        /\ \A i \in 1..k : label[i] \in AsciiLetters
        /\ \A i \in (k + 1)..Len(label) : label[i] \in Digits

\* the label has none of the forms that suggest a human: no "|", no " - ", not
\* several words, and not a bare alphabetic name of 3 or more letters
NoAcceptancePattern(label) ==
    /\ ~contains(label, <<"|">>)
    /\ ~contains(label, <<" ">>)
    /\ ~(Len(label) >= 3 /\ \A i \in DOMAIN label : label[i] \in AsciiLetters)

\* C25: with no roster configured, a label that is not a known player and has
\* an allow-listed aircraft is rejected when it matches an AI-squadron pattern
\* (word+digits) or matches no acceptance pattern
C25_HeuristicsWithoutRoster ==
    [][(LandingStep /\ squadron_callsigns = <<>>
          /\ ~is_known_player(event'.PrimaryObject.Pilot)
          /\ aircraft_allowed(event'.PrimaryObject.Name)
          /\ (WordThenDigits(event'.PrimaryObject.Pilot)
                \/ NoAcceptancePattern(event'.PrimaryObject.Pilot)))
         => LandingIgnored]_vars

\* ------------------------------------------------------------- group labels

\* the group label holds a bot, computer, enemy or hostile token
AiGroupTokens ==
    { <<"b","o","t">>, <<"c","o","m","p","u","t","e","r">>, <<"e","n","e","m","y">>,
      <<"h","o","s","t","i","l","e">> }
AiLikeGroup(group) == \E token \in AiGroupTokens : contains(lower(group), token)

\* C24: a label that is not a known player and whose group label is AI-like is
\* rejected, also when its aircraft is allow-listed and the roster names it
C24_AiGroupRejected ==
    [][(LandingStep /\ ~is_known_player(event'.PrimaryObject.Pilot)
          /\ AiLikeGroup(event'.PrimaryObject.Group))
         => LandingIgnored]_vars

\* ---------------------------------------------------------- death counters

\* the event is the destruction of an accepted primary with no secondary
\* entity, and its position sample, if any, is readable
IsDeath(ev) ==
    /\ ev.Action = "HasBeenDestroyed"
    /\ primary_accepted(ev)
    /\ ~ev.SecondaryObject.present
    /\ ~location_raises(ev)

\* the step adds by to the deaths and to the kia of identity n
DeathsRise(n, by) ==
    /\ Counter(pilot_missions', n, "deaths") = Counter(pilot_missions, n, "deaths") + by
    /\ Counter(pilot_missions', n, "kia") = Counter(pilot_missions, n, "kia") + by

HasAlias(n, label) ==
    n \in DOMAIN pilot_missions' /\ label \in Range(pilot_missions'[n].nicknames)

\* the step counted a kill for the attacker of its event: the attacker's label
\* was resolved to the identity that got the kill
AttackerResolved ==
    /\ IsKill(event')
    /\ Kills(pilot_missions', attacker_nickname(event'))
         = Kills(pilot_missions, attacker_nickname(event')) + 1

\* C27: the alias list of every identity holds every raw label that resolved
\* to the identity during the pass, the label of an accepted primary and the
\* label of an attacker credited with a kill alike, and holds no label twice
C27_AliasesComplete ==
    [][LoopStep
         => /\ \A n \in DOMAIN pilot_missions' :
                  \A i, j \in DOMAIN pilot_missions'[n].nicknames :
                      pilot_missions'[n].nicknames[i] = pilot_missions'[n].nicknames[j]
                        => i = j
            /\ primary_accepted(event')
                 => HasAlias(nickname_of(primary_label(event')), primary_label(event'))
            /\ AttackerResolved
                 => HasAlias(attacker_nickname(event'), strip(event'.SecondaryObject.Pilot))]_vars

\* ------------------------------------------------------- flight-time bounds

\* the time between the earliest and the latest sample of a trace
Span(positions) ==
    LET times == {positions[i].time : i \in DOMAIN positions}
        earliest == CHOOSE t \in times : \A u \in times : t <= u
        latest == CHOOSE t \in times : \A u \in times : t >= u
    IN  latest - earliest

\* C28: whatever the order of the samples in the document, the flight time of
\* a trace is not negative and not more than the time between its earliest
\* and its latest sample
C28_FlightTimeWithinSpan ==
    PassEnded =>
        \A n \in DOMAIN pilot_positions \cap DOMAIN pilot_missions :
            pilot_positions[n] # <<>>
              => /\ total_flight_time(pilot_positions[n]) >= 0
                 /\ total_flight_time(pilot_positions[n]) <= Span(pilot_positions[n])
                 /\ pilot_missions[n].flight_minutes >= 0
                 /\ pilot_missions[n].flight_minutes * 60 <= Span(pilot_positions[n])

\* a trace of three samples given latest sample first: 1000 s of span, a
\* positive flight time below it
C28_UnsortedTrace ==
    /\ PassEnded
    /\ \E n \in DOMAIN pilot_positions \cap DOMAIN pilot_missions :
          /\ Len(pilot_positions[n]) = 3
          /\ pilot_positions[n][1].time = 1100
          /\ pilot_positions[n][2].time = 100
          /\ pilot_positions[n][3].time = 400
          /\ Span(pilot_positions[n]) = 1000
          /\ pilot_missions[n].flight_minutes > 0
          /\ pilot_missions[n].flight_minutes * 60 < 1000

\* ------------------------------------------------------ file operation attempts

\* every attempt of the underlying file operation so far raised OSError
PersistentOSError ==
    \A i \in DOMAIN file_call.operations : file_call.operations[i] = Raises("OSError")

\* C21: the dedup ledger is accessed under mutual exclusion: of the requests
\* for one mission (name, date) at most one performs a non-duplicate pass, and
\* the entry a request has written is not lost by another request's
\* read-modify-write
PassedCheck(r) ==
    requests[r].pc \in {"load", "save", "done"} /\ ~requests[r].duplicate
SameMission(r1, r2) ==
    /\ requests[r1].mission_name = requests[r2].mission_name
    /\ requests[r1].mission_date = requests[r2].mission_date
C21_LedgerUnderMutualExclusion ==
    /\ \A r1, r2 \in DOMAIN requests :
           (r1 # r2 /\ SameMission(r1, r2)) => ~(PassedCheck(r1) /\ PassedCheck(r2))
    /\ \A r \in DOMAIN requests :
           (requests[r].pc = "done" /\ ~requests[r].duplicate)
               => mission_key(requests[r].mission_name, requests[r].mission_date)
                      \in KeysOf(processed_missions)

\* C29: when update_profiles_from_data fails after a successful parse in
\* upload_xml, the mission is not left marked as processed in the dedup ledger,
\* so that a re-upload of the same file is processed, not rejected as duplicate
UpdateFailed ==
    /\ Answering
    /\ result.kind = "success"
    /\ DOMAIN result.pilot_data # {}
    /\ upload'.error_code = "FILE_PROCESSING_FAILED"
C29_FailedUpdateLeavesUnmarked ==
    [][UpdateFailed =>
          mission_key(last_call.mission_name, last_call.mission_date)
              \notin KeysOf(processed_missions')]_vars

\* C30: safe_json_save and safe_json_read make at most 3 attempts of the
\* underlying file operation when it persistently raises OSError, before the
\* error is raised to the caller
C30_AtMostThreeFileOperations ==
    (file_call.func \in JsonFunctions /\ PersistentOSError)
        => Len(file_call.operations) <= 3

=============================================================================
